---- MODULE Spec2Model ----
(***************************************************************************)
(* A model of clvibe's installation and identity-resolution engine         *)
(* (src/clvibe.py, class ClvibeManager): the games root and the backups    *)
(* root as two maps keyed by slug, the slug resolver, the directory and    *)
(* archive install pipelines, uninstall, restore, sync and dedupe.         *)
(*                                                                         *)
(* Python strings are sequences of one-character strings, so that lower(), *)
(* replace() and slicing are computed and not assumed.                     *)
(***************************************************************************)
EXTENDS Integers, Sequences, FiniteSets, TLC

VARIABLES
    games,      \* the games root: slug -> the tree of the installed game
    zipped,     \* the backups root: slug -> the tree archived in <slug>.zip
    last,       \* what the operation that ran last was given and did
    hist,       \* the operations of a recorded run, oldest first
    report,     \* what the operation that ran last printed as its summary
    temp        \* the download file and the two staging directories of the home

vars == <<games, zipped, last, hist, report, temp>>

----------------------------------------------------------------------------
(* Strings *)

UpperAlpha == <<"A","B","C","D","E","F","G","H","I","J","K","L","M",
                "N","O","P","Q","R","S","T","U","V","W","X","Y","Z">>

LowerAlpha == <<"a","b","c","d","e","f","g","h","i","j","k","l","m",
                "n","o","p","q","r","s","t","u","v","w","x","y","z">>

Digits == <<"0","1","2","3","4","5","6","7","8","9">>

\* The characters of the model in code-point order
CodePoints == <<" ", "-", ".", "/">> \o Digits \o UpperAlpha \o <<"_">> \o LowerAlpha

Chars == {CodePoints[i] : i \in DOMAIN CodePoints}

\* The lower-case form of each character: only A-Z change
LowerTable ==
    [c \in Chars |->
        IF \E i \in 1..26 : UpperAlpha[i] = c
        THEN LowerAlpha[CHOOSE i \in 1..26 : UpperAlpha[i] = c]
        ELSE c]

LowerChar(c) == LowerTable[c]

\* str.lower()
Lower(s) == [i \in 1..Len(s) |-> LowerChar(s[i])]

\* str.replace(" ", "-")
SpacesToHyphens(s) == [i \in 1..Len(s) |-> IF s[i] = " " THEN "-" ELSE s[i]]

\* str.replace(".", "")
DropDots(s) == SelectSeq(s, LAMBDA c : c # ".")

\* p is the path q or lies above it
IsPrefix(p, q) == Len(p) <= Len(q) /\ SubSeq(q, 1, Len(p)) = p

\* s[:n]
Prefix(s, n) == IF Len(s) <= n THEN s ELSE SubSeq(s, 1, n)

RECURSIVE IntToStr(_)
\* str(n) for n >= 0, as the f-string of the counter formats it
IntToStr(n) ==
    IF n < 10 THEN <<Digits[n + 1]>>
    ELSE IntToStr(n \div 10) \o <<Digits[(n % 10) + 1]>>

----------------------------------------------------------------------------
(* JSON values of a manifest field: a string, null, or the key is absent *)

Absent == [k |-> "absent", s |-> <<>>]
Null   == [k |-> "null", s |-> <<>>]
Str(s) == [k |-> "str", s |-> s]

\* dict.get(key): None when the key is absent
Get(v) == IF v.k = "absent" THEN Null ELSE v

\* dict.get(key, default)
GetDefault(v, d) == IF v.k = "absent" THEN Str(d) ELSE v

\* The keys of a manifest
KeyName == <<"n","a","m","e">>
KeyAuthor == <<"a","u","t","h","o","r">>
KeyVersion == <<"v","e","r","s","i","o","n">>

\* The state of a game.json file: "missing" (no file), "malformed" (not JSON),
\* "nonrecord" (JSON that is not an object) or "record" with its fields;
\* keys lists the keys of a record in the order they stand in the file.
NoFile ==
    [mstat |-> "missing", name |-> Absent, author |-> Absent, version |-> Absent,
     keys |-> <<>>]

\* A manifest record as json.load returns it, its keys in the order keys
RecordInOrder(name, author, version, keys) ==
    [mstat |-> "record", name |-> name, author |-> author, version |-> version,
     keys |-> keys]

\* A manifest record whose file has the keys that are there in the order
\* name, author, version
Record(name, author, version) ==
    RecordInOrder(name, author, version,
        SelectSeq(<<KeyName, KeyAuthor, KeyVersion>>,
                  LAMBDA k : (CASE k = KeyName -> name
                                [] k = KeyAuthor -> author
                                [] OTHER -> version).k # "absent"))

Malformed ==
    [mstat |-> "malformed", name |-> Absent, author |-> Absent, version |-> Absent,
     keys |-> <<>>]
NonRecord ==
    [mstat |-> "nonrecord", name |-> Absent, author |-> Absent, version |-> Absent,
     keys |-> <<>>]

----------------------------------------------------------------------------
(* Identity resolver: ClvibeManager._get_unique_slug *)

Unknown == <<"u","n","k","n","o","w","n">>
DefaultVersion == <<"1",".","0">>

AuthorSlugLen == 20

\* game_name.lower().replace(" ", "-")
BaseSlug(name) == SpacesToHyphens(Lower(name))

\* Faulty variant of AuthorSlug: the slice is forgotten
AuthorSlugUncut(author) == SpacesToHyphens(Lower(author))

\* author.lower().replace(" ", "-")[:20]
AuthorSlug(author) == Prefix(SpacesToHyphens(Lower(author)), AuthorSlugLen)

\* f"{base_slug}-by-{author_slug}"
SlugWithAuthor(base, author) == base \o <<"-","b","y","-">> \o AuthorSlug(author)

\* f"{slug_with_author}-v{version}" with version.replace(".", "")
SlugWithVersion(base, author, version) ==
    SlugWithAuthor(base, author) \o <<"-","v">> \o DropDots(version)

\* f"{slug_with_version}-{counter}"
SlugWithCounter(base, author, version, c) ==
    SlugWithVersion(base, author, version) \o <<"-">> \o IntToStr(c)

\* games_dir / slug for the slugs that name no directory below the games
\* root: '' and '.' give the games root itself, '..' the home directory
AboveGames(slug) == slug \in {<<>>, <<".">>, <<".", ".">>}

\* slug spells a path with a directory part: games_dir / slug lies inside a
\* subdirectory of the games root, zipped_dir / f"{slug}.zip" inside one of
\* the backups root
Nested(slug) == \E i \in DOMAIN slug : slug[i] = "/"

\* (games_dir / slug).exists() against the games root g, which maps the path
\* of every game directory below the root to the tree there: the path is
\* that of a game directory, of the root or the home directory, or of a
\* directory a game directory lies in
Exists(g, slug) ==
    \/ slug \in DOMAIN g
    \/ AboveGames(slug)
    \/ \E k \in DOMAIN g : IsPrefix(slug \o <<"/">>, k)

\* Faulty variant of FreeCounter: the loop is not entered
FirstCounter(g, base, author, version, c) == c

RECURSIVE FreeCounter(_, _, _, _, _)
\* counter = 2; while exists(f"{slug_with_version}-{counter}"): counter += 1
FreeCounter(g, base, author, version, c) ==
    IF Exists(g, SlugWithCounter(base, author, version, c))
    THEN FreeCounter(g, base, author, version, c + 1)
    ELSE c

Returned(slug) == [raised |-> FALSE, slug |-> slug]
Raised == [raised |-> TRUE, slug |-> <<>>]

\* Faulty variant of SameGame: the version is not compared
SameAuthor(ex, md) ==
    /\ ex.mstat = "record"
    /\ Get(ex.author) = Get(md.author)

\* Same author and version = update (the occupant's game.json is read first)
SameGame(ex, md) ==
    /\ ex.mstat = "record"
    /\ Get(ex.author) = Get(md.author)
    /\ Get(ex.version) = Get(md.version)

\* The cascade below the update test: author suffix, version tag, counter
Disambiguate(g, base, md) ==
    LET author == GetDefault(md.author, Unknown)
        version == GetDefault(md.version, DefaultVersion)
    IN  IF author.k # "str" THEN Raised              \* None.lower()
        ELSE IF ~Exists(g, SlugWithAuthor(base, author.s))
             THEN Returned(SlugWithAuthor(base, author.s))
        ELSE IF version.k # "str" THEN Raised        \* None.replace()
        ELSE IF ~Exists(g, SlugWithVersion(base, author.s, version.s))
             THEN Returned(SlugWithVersion(base, author.s, version.s))
        ELSE Returned(SlugWithCounter(base, author.s, version.s,
                         FreeCounter(g, base, author.s, version.s, 2)))

\* _get_unique_slug(base_slug, metadata) against the games root g; a path
\* that is there without being a game directory has no game.json in it
GetUniqueSlug(g, base, md) ==
    IF ~Exists(g, base) THEN Returned(base)
    ELSE IF base \notin DOMAIN g THEN Disambiguate(g, base, md)
    ELSE IF g[base].file.mstat = "nonrecord" THEN Raised   \* existing_meta.get
    ELSE IF SameGame(g[base].file, md) THEN Returned(base)
    ELSE Disambiguate(g, base, md)

----------------------------------------------------------------------------
(* The two roots as maps from slug to what is stored under it *)

\* g with key s set to v
Put(g, s, v) == [x \in DOMAIN g \cup {s} |-> IF x = s THEN v ELSE g[x]]

\* g without key s
Drop(g, s) == [x \in DOMAIN g \ {s} |-> g[x]]

\* A file tree holding a game.json (file) and the game's other files (content)
Tree(file, content) == [file |-> file, content |-> content]

\* response.lower() != 'y' cancels
Accepts(resp) == Lower(resp) = <<"y">>

\* What an operation did: the roots after it, how it ended, the slug it
\* resolved or selected, whether it prompted, and whether a prompt of it was
\* answered with an accept.
Done(g, z, outcome, slug, asked, accepted) ==
    [games |-> g, zipped |-> z, outcome |-> outcome, slug |-> slug,
     asked |-> asked, accepted |-> accepted]

\* Faulty variant of CreateZip: an archive that is there is left as it is
CreateZipIfMissing(z, slug, tree) == IF slug \in DOMAIN z THEN z ELSE Put(z, slug, tree)

\* Faulty variant of LoadFromDirectory: only the missing file is turned away
LoadFromDirectoryUnchecked(f) == IF f.mstat = "missing" THEN "no_manifest" ELSE "ok"

\* _create_zip(source_dir, zip_path): the archive is written anew from the tree
CreateZip(z, slug, tree) == Put(z, slug, tree)

\* How _install_from_directory gets its metadata: "no_manifest" and "invalid"
\* are its two early returns; metadata.get on JSON that is not an object
\* raises AttributeError
LoadFromDirectory(f) ==
    CASE f.mstat = "missing" -> "no_manifest"
      [] f.mstat = "malformed" -> "invalid"
      [] f.mstat = "nonrecord" -> "raised"
      [] OTHER -> "ok"

\* _install_from_directory from the call of _get_unique_slug on, r being
\* what the call gives
InstallFromDirectoryAt(g, z, src, r, resp) ==
    IF r.raised THEN Done(g, z, "raised", <<>>, FALSE, FALSE)
    ELSE IF r.slug \in DOMAIN g /\ ~Accepts(resp)
         THEN Done(g, z, "cancelled", r.slug, TRUE, FALSE)
    ELSE IF Nested(r.slug)          \* copytree makes the directories above
         THEN Done(Put(g, r.slug, src.tree), z,  \* dest_dir, ZipFile(..., 'w')
                   "raised", r.slug,             \* none: FileNotFoundError
                   r.slug \in DOMAIN g, r.slug \in DOMAIN g)
    ELSE Done(Put(g, r.slug, src.tree),          \* rmtree, copytree
              CreateZip(z, r.slug, src.tree),
              IF r.slug \in DOMAIN g THEN "updated" ELSE "installed",
              r.slug, r.slug \in DOMAIN g, r.slug \in DOMAIN g)

\* _install_from_directory(source_dir) with the answer to "Overwrite?"
InstallFromDirectoryResult(g, z, src, resp) ==
    LET f == src.tree.file IN
    IF LoadFromDirectory(f) # "ok"
    THEN Done(g, z, LoadFromDirectory(f), <<>>, FALSE, FALSE)
    ELSE LET name == GetDefault(f.name, src.stem) IN
    IF name.k # "str" THEN Done(g, z, "raised", <<>>, FALSE, FALSE)
    ELSE InstallFromDirectoryAt(g, z, src, GetUniqueSlug(g, BaseSlug(name.s), f), resp)

\* How _install_from_zip gets its metadata from the extracted tree: json.load
\* is not guarded there, so malformed JSON raises like a non-object does
LoadFromZip(f) ==
    CASE f.mstat = "missing" -> "no_manifest"
      [] f.mstat \in {"malformed", "nonrecord"} -> "raised"
      [] OTHER -> "ok"

\* _install_from_zip from the call of _get_unique_slug on, r being what the
\* call gives
InstallFromZipAt(g, z, zp, archive, r, resp, inBackups) ==
    IF r.raised THEN Done(g, z, "raised", <<>>, FALSE, FALSE)
    ELSE IF inBackups /\ r.slug = zp.stem
         THEN Done(g, z, "raised", r.slug, FALSE, FALSE)
    ELSE IF Nested(r.slug)                  \* copy2 into a directory that
         THEN Done(g, z, "raised", r.slug, FALSE, FALSE)   \* is not there
    ELSE LET stored == Put(z, r.slug, archive)          \* shutil.copy2
         IN  IF r.slug \in DOMAIN g /\ ~Accepts(resp)
             THEN Done(g, Drop(stored, r.slug),         \* dest_zip.unlink()
                       "cancelled", r.slug, TRUE, FALSE)
             ELSE Done(Put(g, r.slug, zp.tree), stored, \* rmtree, shutil.move
                       IF r.slug \in DOMAIN g THEN "updated" ELSE "installed",
                       r.slug, r.slug \in DOMAIN g, r.slug \in DOMAIN g)

\* _install_from_zip(zip_path) with the answer to "Overwrite?"; zp.tree is the
\* game the walk of the extracted archive finds and archive is the file
\* zip_path itself, which is what copy2 stores; inBackups says
\* that zip_path is a file of the backups root (restore), so that copying it
\* onto <slug>.zip of the same stem is shutil's SameFileError
InstallFromZipStoring(g, z, zp, archive, resp, inBackups) ==
    LET f == zp.tree.file IN
    IF LoadFromZip(f) # "ok"
    THEN Done(g, z, LoadFromZip(f), <<>>, FALSE, FALSE)
    ELSE LET name == GetDefault(f.name, zp.stem) IN
    IF name.k # "str" THEN Done(g, z, "raised", <<>>, FALSE, FALSE)
    ELSE InstallFromZipAt(g, z, zp, archive, GetUniqueSlug(g, BaseSlug(name.s), f),
                          resp, inBackups)

\* _install_from_zip on an archive that holds the files of one game at its
\* top and nothing else: the archive stands for the tree of that game
InstallFromZipResult(g, z, zp, resp, inBackups) ==
    InstallFromZipStoring(g, z, zp, zp.tree, resp, inBackups)

\* restore_from_zip: the selected backup goes through _install_from_zip
RestoreFromZipResult(g, z, stem, resp) ==
    InstallFromZipResult(g, z, [stem |-> stem, tree |-> z[stem]], resp, TRUE)

\* A temporary path of the home directory: not there, or there with what it
\* holds
Gone == [there |-> FALSE, holds |-> <<>>]
Holding(x) == [there |-> TRUE, holds |-> x]

\* temp_downloads/<filename>, temp_extract and temp_collection
NoTemp == [download |-> Gone, extract |-> Gone, collection |-> Gone]

\* The finally clauses: if path.exists(): remove it
Swept(t, paths) ==
    [p \in DOMAIN t |-> IF p \in paths THEN Gone ELSE t[p]]

\* The temporary paths the handler of an operation works in and sweeps
Staging(op) ==
    CASE op \in {"install_zip", "restore"} -> {"extract"}
      [] op \in {"install_game", "batch_install"} -> {"download", "extract", "collection"}
      [] OTHER -> {}

\* The slugs _get_all_games lists: the directories right below the games
\* root whose game.json loads
GetAllGames(g) == {s \in DOMAIN g : g[s].file.mstat = "record" /\ ~Nested(s)}

\* Faulty variant of UninstallResult: the backup goes with the game unasked
UninstallWithBackup(g, z, slug, resp, respZip) ==
    IF ~Accepts(resp) THEN Done(g, z, "cancelled", slug, TRUE, FALSE)
    ELSE Done(Drop(g, slug),
              IF slug \in DOMAIN z THEN Drop(z, slug) ELSE z,
              "uninstalled", slug, TRUE, TRUE)

\* uninstall_game on the game _find_game selected, with the two answers
UninstallResult(g, z, slug, resp, respZip) ==
    IF ~Accepts(resp) THEN Done(g, z, "cancelled", slug, TRUE, FALSE)
    ELSE Done(Drop(g, slug),
              IF slug \in DOMAIN z /\ Accepts(respZip) THEN Drop(z, slug) ELSE z,
              "uninstalled", slug, TRUE, TRUE)

\* Faulty variant of SyncCreated: no backup is created
SyncCreatedNone(g, z) == {}

\* Faulty variant of SyncCreated: every game is archived again
SyncCreatedAll(g, z) == GetAllGames(g)

\* Faulty variant of SyncOrphaned: every backup counts as orphaned
SyncOrphanedAll(g, z) == DOMAIN z

\* sync_zips: the slugs it creates a backup for
SyncCreated(g, z) == GetAllGames(g) \ DOMAIN z

\* sync_zips: the backups it reports as orphaned
SyncOrphaned(g, z) == DOMAIN z \ GetAllGames(g)

\* sync_zips with the answer to "Delete orphaned zips?"
SyncResult(g, z, resp) ==
    LET created == SyncCreated(g, z)
        orphaned == SyncOrphaned(g, z)
        kept == IF Accepts(resp) THEN DOMAIN z \ orphaned ELSE DOMAIN z
    IN  Done(g,
             [s \in kept \cup created |->
                 IF s \in created THEN CreateZip(z, s, g[s])[s] ELSE z[s]],
             "synced", <<>>, orphaned # {}, orphaned # {} /\ Accepts(resp))

\* The summary of an operation: the source or the batch an install command
\* was given, how install_game classified its source, the
\* two counts a collection or batch install prints with the outcome of each of
\* its items, what sync_zips lists as created and as orphaned, and the sets
\* of duplicates find_duplicates lists and the order it lists the games in,
\* what uninstall_game says of the backup ("removed", "kept", or "none"
\* when it does not ask), and what batch_export leaves in the output
\* directory, by the name of each artifact;
\* again says that a sync pass directly followed another sync pass, or a
\* find_duplicates run another find_duplicates run
NoReport ==
    [given |-> [src |-> [stem |-> <<>>, folders |-> <<>>], kind |-> "none",
                forced |-> FALSE, batch |-> <<>>],
     mode |-> "none", successful |-> 0, failed |-> 0, items |-> <<>>,
     created |-> {}, orphaned |-> {}, again |-> FALSE, groups |-> {},
     listing |-> <<>>, backup |-> "none", exported |-> <<>>]

\* uninstall_game: what it prints of the backup after the second prompt
UninstallReport(z, slug, resp, respZip) ==
    [NoReport EXCEPT !.backup =
        IF ~Accepts(resp) \/ slug \notin DOMAIN z THEN "none"
        ELSE IF Accepts(respZip) THEN "removed" ELSE "kept"]

\* sync_zips: what it prints
SyncReport(g, z, again) ==
    [NoReport EXCEPT !.created = SyncCreated(g, z),
                     !.orphaned = SyncOrphaned(g, z),
                     !.again = again]

----------------------------------------------------------------------------
(* Source classification, collection install and batch install *)

GameJson == <<"g","a","m","e",".","j","s","o","n">>

\* The directory a collection archive is extracted to
TempCollection == <<"t","e","m","p","_","c","o","l","l","e","c","t","i","o","n">>

\* str.endswith
EndsWith(s, t) ==
    /\ Len(s) >= Len(t)
    /\ SubSeq(s, Len(s) - Len(t) + 1, Len(s)) = t

\* A folder of a source: where it lies below the top of the source (the names
\* of the directories down to it), its tree (its game.json and the game's
\* files) and the names of its files other than game.json
Folder(at, file, content, others) ==
    [at |-> at, tree |-> Tree(file, content), others |-> others]

\* The names of the files of a folder
FileNames(d) ==
    d.others \cup (IF d.tree.file.mstat = "missing" THEN {} ELSE {GameJson})

RECURSIVE JoinPath(_)
\* The path of a file: its segments joined by "/"
JoinPath(segs) ==
    IF Len(segs) = 1 THEN segs[1]
    ELSE segs[1] \o <<"/">> \o JoinPath(Tail(segs))

\* zf.namelist(): the entry of each file of each folder, as <<folder, name>>
NameList(src) ==
    UNION {{<<i, JoinPath(Append(src.folders[i].at, n))>> :
                n \in FileNames(src.folders[i])} : i \in DOMAIN src.folders}

\* _is_collection_zip: more than one entry name ends with 'game.json'
IsCollectionZip(src) ==
    Cardinality({e \in NameList(src) : EndsWith(e[2], GameJson)}) > 1

\* The folders with a file named game.json, in the order of the walk:
\* source.rglob("game.json"), and "game.json" in files under os.walk
GameDirs(src) == SelectSeq(src.folders, LAMBDA d : GameJson \in FileNames(d))

\* game_dir.name: the top folder of a directory source has the name of the
\* source, the top folder of an extracted collection that of the staging directory
DirName(src, d, kind) ==
    IF d.at # <<>> THEN d.at[Len(d.at)]
    ELSE IF kind = "dir" THEN src.stem
    ELSE TempCollection

\* The game directories of a source as _install_from_directory is given them
GameSources(src, kind) ==
    [i \in DOMAIN GameDirs(src) |->
        [stem |-> DirName(src, GameDirs(src)[i], kind), tree |-> GameDirs(src)[i].tree]]

\* What an operation did and the summary it printed
Outcome(done, rep) == [done |-> done, rep |-> rep]

\* The running state of an install loop: the roots, the two counters and,
\* for each item gone through, what it was and how its install ended
Tally(g, z) ==
    [games |-> g, zipped |-> z, successful |-> 0, failed |-> 0, items |-> <<>>]

\* One pass of the loop body: successful += 1 when the call returns,
\* failed += 1 when it raises
Counted(t, tree, d) ==
    [games |-> d.games, zipped |-> d.zipped,
     successful |-> t.successful + (IF d.outcome = "raised" THEN 0 ELSE 1),
     failed |-> t.failed + (IF d.outcome = "raised" THEN 1 ELSE 0),
     items |-> Append(t.items, [tree |-> tree, outcome |-> d.outcome, slug |-> d.slug])]

RECURSIVE InstallEachUntilFailure(_, _, _)
\* Faulty variant of InstallEach: the loop ends at the first item that fails
InstallEachUntilFailure(t, dirs, resp) ==
    IF dirs = <<>> THEN t
    ELSE LET d == InstallFromDirectoryResult(t.games, t.zipped, Head(dirs), resp)
         IN  IF d.outcome \notin {"installed", "updated"} THEN t
             ELSE InstallEachUntilFailure(Counted(t, Head(dirs).tree, d), Tail(dirs), resp)

RECURSIVE InstallEach(_, _, _)
\* for i, game_dir in enumerate(game_dirs, 1): try _install_from_directory
InstallEach(t, dirs, resp) ==
    IF dirs = <<>> THEN t
    ELSE InstallEach(Counted(t, Head(dirs).tree,
                             InstallFromDirectoryResult(t.games, t.zipped, Head(dirs), resp)),
                     Tail(dirs), resp)

\* The summary of a finished install loop
TallyReport(t) ==
    [NoReport EXCEPT !.successful = t.successful, !.failed = t.failed,
                     !.items = t.items]

\* _install_collection_from_directory and _install_collection_from_zip over the
\* game directories found; ans.all answers "Install all?", ans.each every
\* "Overwrite?" of the run
InstallCollectionResult(g, z, dirs, ans) ==
    IF dirs = <<>> THEN Outcome(Done(g, z, "no_games", <<>>, FALSE, FALSE), NoReport)
    ELSE IF ~Accepts(ans.all)
         THEN Outcome(Done(g, z, "cancelled", <<>>, TRUE, FALSE), NoReport)
    ELSE LET t == InstallEach(Tally(g, z), dirs, ans.each)
         IN  Outcome(Done(t.games, t.zipped, "collected", <<>>, TRUE, TRUE),
                     TallyReport(t))

\* The route install_game announces
Routed(mode, o) == Outcome(o.done, [o.rep EXCEPT !.mode = mode])

\* The tree _install_from_zip moves into place: that of the first folder with
\* a game.json the walk of the extracted archive meets
FirstGame(src) ==
    IF GameDirs(src) = <<>> THEN Tree(NoFile, 1) ELSE GameDirs(src)[1].tree

\* The files of a list of folders: each file by the folder it is in, its name
\* and what it holds; the files of a game other than those named are one
\* entry without a name
Entries(folders) ==
    UNION {{<<folders[i].at, n, IF n = GameJson THEN folders[i].tree.file ELSE n>> :
                n \in FileNames(folders[i])}
           \cup {<<folders[i].at, <<>>, folders[i].tree.content>>} :
           i \in DOMAIN folders}

\* The folders at or below the directory at, as they lie relative to it
Below(folders, at) ==
    LET in == SelectSeq(folders, LAMBDA d : IsPrefix(at, d.at))
    IN  [i \in DOMAIN in |->
            [in[i] EXCEPT !.at = SubSeq(in[i].at, Len(at) + 1, Len(in[i].at))]]

\* game_source = game_json.parent: the directory of the extracted archive
\* that shutil.move takes to games/<slug>, with all that is below it
GameSource(src) == Below(src.folders, GameDirs(src)[1].at)

\* A source archive that is not the tree of one game: its folders as they are
Copied(folders) == [folders |-> folders]

\* The file zip_path as the backups root holds a copy of it.  An archive
\* whose entries are the files of the game it installs, by their paths from
\* the directory of the manifest, is what _create_zip writes for that game
\* and stands for the game's tree; any other archive is its folders.
Archived(src) ==
    IF GameDirs(src) # <<>> /\ Entries(src.folders) = Entries(GameSource(src))
    THEN FirstGame(src)
    ELSE Copied(src.folders)

\* zf.extractall(staging) into the directory just made
ExtractAll(src) == Holding(src.folders)

\* A folder of the staging directory after a folder of the archive is
\* extracted onto it: the files of the archive replace those of the same
\* name, every other file stays
Over(old, new) ==
    [at |-> old.at,
     tree |-> Tree(IF new.tree.file.mstat = "missing" THEN old.tree.file
                   ELSE new.tree.file,
                   new.tree.content),
     others |-> old.others \cup new.others]

\* The walk is top-down: the staging directory itself comes first
TopFirst(folders) ==
    SelectSeq(folders, LAMBDA d : d.at = <<>>) \o SelectSeq(folders, LAMBDA d : d.at # <<>>)

\* temp_extract.mkdir(exist_ok=True); zf.extractall(temp_extract) on a
\* staging directory that holds the folders old: what was there is not
\* cleared, the archive is unpacked over it
ExtractOver(old, new) ==
    LET kept == [i \in DOMAIN old |->
                    IF \E j \in DOMAIN new : new[j].at = old[i].at
                    THEN Over(old[i], new[CHOOSE j \in DOMAIN new : new[j].at = old[i].at])
                    ELSE old[i]]
        added == SelectSeq(new, LAMBDA d : \A i \in DOMAIN old : old[i].at # d.at)
    IN  TopFirst(kept \o added)

\* What temp_extract holds when _install_from_zip walks it
Staged(t, src) ==
    IF t.extract.there THEN ExtractOver(t.extract.holds, src.folders)
    ELSE src.folders

\* _install_from_zip(zip_path) over the staging directory as it is found: the
\* walk meets the first game.json of what is staged, copy2 stores zip_path
InstallFromZipStaged(g, z, src, staged, resp) ==
    InstallFromZipStoring(g, z,
                          [stem |-> src.stem,
                           tree |-> FirstGame([src EXCEPT !.folders = staged])],
                          Archived(src), resp, FALSE)

\* What the try block of _install_from_zip leaves of temp_extract: all that
\* was extracted, or after shutil.move what is not at or below game_source
\* (nothing of the directory when game_source is the directory itself)
LeftInExtract(src, d) ==
    IF d.outcome \notin {"installed", "updated"} THEN ExtractAll(src)
    ELSE IF GameDirs(src)[1].at = <<>> THEN Gone
    ELSE Holding(SelectSeq(src.folders,
                           LAMBDA x : ~IsPrefix(GameDirs(src)[1].at, x.at)))

\* Faulty variant of Finally: the removal stands at the end of the block, so
\* that a return or an exception inside the block passes it by
AtEndOfBlock(t, paths, outcome) ==
    IF outcome \in {"installed", "updated", "collected"} THEN Swept(t, paths) ELSE t

\* try: ... finally: if path.exists(): remove it, however the block is left
Finally(t, paths, outcome) == Swept(t, paths)

\* The temporary paths after install_game on an archive: _install_from_zip
\* stages in temp_extract, _install_collection_from_zip in temp_collection
\* (its games are copied out of it, not moved)
ZipTemp(t, src, o) ==
    IF o.rep.mode = "collection"
    THEN Finally([t EXCEPT !.collection = ExtractAll(src)], {"collection"}, o.done.outcome)
    ELSE Finally([t EXCEPT !.extract = LeftInExtract(src, o.done)], {"extract"},
                 o.done.outcome)

\* install_game(source_path, force_collection) for a directory (kind "dir") and
\* for an archive (kind "zip")
InstallGameResult(g, z, src, kind, force, ans) ==
    LET dirs == GameSources(src, kind) IN
    IF kind = "dir"
    THEN IF Len(dirs) > 1 \/ (Len(dirs) = 1 /\ force)
         THEN Routed("collection", InstallCollectionResult(g, z, dirs, ans))
         ELSE IF Len(dirs) = 1
              THEN Routed("single",
                          Outcome(InstallFromDirectoryResult(g, z, dirs[1], ans.each),
                                  NoReport))
         ELSE Outcome(Done(g, z, "no_manifest", <<>>, FALSE, FALSE), NoReport)
    ELSE IF force \/ IsCollectionZip(src)
         THEN Routed("collection", InstallCollectionResult(g, z, dirs, ans))
         ELSE Routed("single",
                     Outcome(InstallFromZipStoring(g, z,
                                 [stem |-> src.stem, tree |-> FirstGame(src)],
                                 Archived(src), ans.each, FALSE),
                             NoReport))

\* _install_from_url(url, force_collection): fetch is how urlretrieve and the
\* zip check end ("http_error", "url_error", "cut_short" for a transfer that
\* breaks off, "not_zip", "ok"); an exception of the install that follows is
\* caught and reported as a failed download
InstallFromUrlResult(g, z, src, fetch, force, ans) ==
    IF fetch # "ok" THEN Outcome(Done(g, z, fetch, <<>>, FALSE, FALSE), NoReport)
    ELSE LET o == InstallGameResult(g, z, src, "zip", force, ans)
         IN  IF o.done.outcome = "raised"
             THEN Outcome(Done(o.done.games, o.done.zipped, "download_failed",
                               <<>>, FALSE, FALSE), o.rep)
             ELSE o

\* temp_downloads/<filename> when urlretrieve is over: nothing when the
\* request is refused, a part of the file when the transfer breaks off
Downloaded(src, fetch) ==
    CASE fetch \in {"http_error", "url_error"} -> Gone
      [] fetch = "cut_short" -> Holding(<<>>)
      [] OTHER -> Holding(src.folders)

\* The temporary paths after _install_from_url: a file that is not a zip is
\* unlinked on the spot, a zip is installed from, and the finally clause
\* unlinks the file if it is there
UrlTemp(t, src, fetch, o) ==
    LET got == [t EXCEPT !.download = Downloaded(src, fetch)]
    IN  Finally(CASE fetch = "not_zip" -> Swept(got, {"download"})
                  [] fetch = "ok" -> ZipTemp(got, src, o)
                  [] OTHER -> got,
                {"download"}, o.done.outcome)

\* One item of a batch: install_game on a directory or an archive found in the
\* batch directory, _install_from_url on a line of the list.  it.fetched says
\* that the archive is a valid zip file and, for a URL, that it was downloaded.
\* An exception of the install is caught inside _install_from_url.
BatchItemResult(g, z, it, kind, ans) ==
    IF kind # "dir" /\ ~it.fetched
    THEN Done(g, z, IF kind = "url" THEN "download_failed" ELSE "not_zip",
              <<>>, FALSE, FALSE)
    ELSE LET d == InstallGameResult(g, z, it.src, IF kind = "url" THEN "zip" ELSE kind,
                                    FALSE, ans).done
         IN  IF kind = "url" /\ d.outcome = "raised"
             THEN Done(d.games, d.zipped, "download_failed", <<>>, FALSE, FALSE)
             ELSE d

RECURSIVE InstallBatch(_, _, _, _)
\* for game_path in games_found / for url in urls: try the install
InstallBatch(t, items, kind, ans) ==
    IF items = <<>> THEN t
    ELSE InstallBatch(Counted(t, FirstGame(Head(items).src),
                              BatchItemResult(t.games, t.zipped, Head(items), kind, ans)),
                      Tail(items), kind, ans)

\* batch_install over the directories (kind "dir") or the archives (kind
\* "zip") of a directory, _batch_install_from_urls over the lines of a list
\* (kind "url")
BatchInstallResult(g, z, items, kind, ans) ==
    IF items = <<>> THEN Outcome(Done(g, z, "no_games", <<>>, FALSE, FALSE), NoReport)
    ELSE IF ~Accepts(ans.all)
         THEN Outcome(Done(g, z, "cancelled", <<>>, TRUE, FALSE), NoReport)
    ELSE LET t == InstallBatch(Tally(g, z), items, kind, ans)
         IN  Outcome(Done(t.games, t.zipped, "batched", <<>>, TRUE, TRUE),
                     TallyReport(t))

----------------------------------------------------------------------------
(* Enumeration order of the installed games and duplicate pruning *)

OrdTable == [c \in Chars |-> CHOOSE i \in DOMAIN CodePoints : CodePoints[i] = c]

\* ord(c), up to the gaps between the characters of the model
Ord(c) == OrdTable[c]

RECURSIVE StrLeq(_, _)
\* a <= b on Python strings
StrLeq(a, b) ==
    IF a = <<>> THEN TRUE
    ELSE IF b = <<>> THEN FALSE
    ELSE IF Head(a) # Head(b) THEN Ord(Head(a)) < Ord(Head(b))
    ELSE StrLeq(Tail(a), Tail(b))

\* The sort key of _get_all_games: metadata.get("name", game_dir.name).lower()
SortKey(g, s) == Lower(GetDefault(g[s].file.name, s).s)

\* Which games sort before which: key(a) <= key(b)
KeyOrder(g) ==
    [a \in GetAllGames(g), b \in GetAllGames(g) |->
        StrLeq(SortKey(g, a), SortKey(g, b))]

\* The lists of the games S without repetition that are in the order leq
SortedLists(S, leq) ==
    {o \in [1..Cardinality(S) -> S] :
        \A i, j \in DOMAIN o : i < j => (o[i] # o[j] /\ leq[o[i], o[j]])}

\* The lists _get_all_games can return: sorted by key, a stable sort over the
\* order in which the file system lists the games root, so ties fall any way
GameOrders(g) == SortedLists(GetAllGames(g), KeyOrder(g))

\* metadata[key] of a manifest record
Field(f, key) ==
    CASE key = KeyName -> f.name
      [] key = KeyAuthor -> f.author
      [] OTHER -> f.version

\* The keys of a manifest in ascending order, as strings compare
KeysInOrder ==
    CHOOSE p \in [1..3 -> {KeyName, KeyAuthor, KeyVersion}] :
        \A i, j \in 1..3 : i < j => (p[i] # p[j] /\ StrLeq(p[i], p[j]))

\* sorted(keys): the keys of one manifest in ascending order
SortedKeys(keys) ==
    SelectSeq(KeysInOrder, LAMBDA k : \E i \in DOMAIN keys : keys[i] = k)

\* json.dumps(metadata) without sort_keys: the items in the order of the file
Dump(f, keys) == [i \in 1..Len(keys) |-> <<keys[i], Field(f, keys[i])>>]

\* Faulty variant of NormalizedDump: the keys are not sorted
UnsortedDump(f) == Dump(f, f.keys)

\* json.dumps(metadata, sort_keys=True)
NormalizedDump(f) == Dump(f, SortedKeys(f.keys))

\* _compute_game_hash: the digest of the normalized text, "" on any exception;
\* the digest stands for the text it is computed from
ComputeGameHash(f) ==
    IF f.mstat = "record" THEN [ok |-> TRUE, text |-> NormalizedDump(f)]
    ELSE [ok |-> FALSE, text |-> <<>>]

\* The hash find_duplicates computes for each game listed
GameHashes(g) == [s \in GetAllGames(g) |-> ComputeGameHash(g[s].file)]

\* hash_to_games[hash of s]: the games with the hash of s, none for the hash ""
GroupOf(h, s) == {x \in DOMAIN h : h[x].ok /\ h[x] = h[s]}

\* find_duplicates: the games hash_to_games lists under the hash of s
DuplicateGroup(g, s) == GroupOf(GameHashes(g), s)

\* duplicates: the groups of more than one game
GroupsOf(h) == {G \in {GroupOf(h, s) : s \in DOMAIN h} : Cardinality(G) > 1}

\* find_duplicates: duplicates over the games root g
DuplicateGroups(g) == GroupsOf(GameHashes(g))

\* find_duplicates: the sets of duplicates it prints
DedupeReport(g) ==
    [NoReport EXCEPT !.groups =
        IF Cardinality(GetAllGames(g)) < 2 THEN {} ELSE DuplicateGroups(g)]

\* The games of the list o that are in one of the sets, in the order of o
Listing(o, groups) == SelectSeq(o, LAMBDA s : s \in UNION groups)

\* find_duplicates: the sets of duplicates it prints over the list o of
\* _get_all_games, the games of each set in the order of the list
DedupeListing(g, o, again) ==
    [DedupeReport(g) EXCEPT !.listing = Listing(o, DuplicateGroups(g)),
                            !.again = again]

\* The position of s in the list o
IndexOf(o, s) == CHOOSE i \in DOMAIN o : o[i] = s

\* to_remove = dupe_games[1:]: every member of a group but the first listed
Later(h, o) ==
    {s \in DOMAIN h : \E x \in GroupOf(h, s) : IndexOf(o, x) < IndexOf(o, s)}

\* find_duplicates: the games it removes on an accept, given the list o
ToRemove(g, o) == Later(GameHashes(g), o)

\* Faulty variant of Prune: the backups of the removed games are left
PruneGamesOnly(g, z, rm, resp) ==
    IF rm = {} THEN Done(g, z, "nothing", <<>>, FALSE, FALSE)
    ELSE IF ~Accepts(resp) THEN Done(g, z, "cancelled", <<>>, TRUE, FALSE)
    ELSE Done([s \in DOMAIN g \ rm |-> g[s]], z, "pruned", <<>>, TRUE, TRUE)

\* Faulty variant of Prune: the answer is not looked at
PruneUnasked(g, z, rm, resp) ==
    IF rm = {} THEN Done(g, z, "nothing", <<>>, FALSE, FALSE)
    ELSE Done([s \in DOMAIN g \ rm |-> g[s]],
              [s \in DOMAIN z \ rm |-> z[s]],
              "cancelled", <<>>, TRUE, FALSE)

\* The end of find_duplicates, with the answer to "Remove duplicates?": the
\* games of rm and their backups are removed
Prune(g, z, rm, resp) ==
    IF rm = {} THEN Done(g, z, "nothing", <<>>, FALSE, FALSE)
    ELSE IF ~Accepts(resp) THEN Done(g, z, "cancelled", <<>>, TRUE, FALSE)
    ELSE Done([s \in DOMAIN g \ rm |-> g[s]],
              [s \in DOMAIN z \ rm |-> z[s]],
              "pruned", <<>>, TRUE, TRUE)

\* find_duplicates over the list o with the answer to "Remove duplicates?"
FindDuplicatesResult(g, z, o, resp) ==
    Prune(g, z, IF Len(o) < 2 THEN {} ELSE ToRemove(g, o), resp)

----------------------------------------------------------------------------
(* Batch export *)

DotZip == <<".","z","i","p">>

\* slug = game_name.lower().replace(" ", "-"), and f"{slug}.zip" when zipped
ExportName(g, s, zip) ==
    BaseSlug(GetDefault(g[s].file.name, s).s) \o (IF zip THEN DotZip ELSE <<>>)

RECURSIVE ExportEach(_, _, _, _)
\* for game in games: _create_zip onto zip_path, or rmtree and copytree onto
\* dest_dir; either way what was there under the name is replaced
ExportEach(out, g, o, zip) ==
    IF o = <<>> THEN out
    ELSE ExportEach(Put(out, ExportName(g, Head(o), zip), g[Head(o)]), g, Tail(o), zip)

\* batch_export(output_dir, zipped) into an empty output directory, over the
\* list o of _get_all_games: the roots are read only
BatchExportResult(g, z, o) ==
    Done(g, z, IF o = <<>> THEN "no_games" ELSE "exported", <<>>, FALSE, FALSE)

\* batch_export: the output directory afterwards
ExportReport(g, o, zip) ==
    [NoReport EXCEPT !.exported = ExportEach(<<>>, g, o, zip), !.listing = o]

----------------------------------------------------------------------------
(* Inputs *)

MaxGames == 2
MaxZips == 2

Dungeon == <<"D","u","n","g","e","o","n">>
Ada == <<"A","d","a">>
Grace == <<"G","r","a","c","e">>
\* An author longer than the 20 characters the author slug keeps
Augusta == <<"A","u","g","u","s","t","a"," ","A","d","a"," ","K","i","n","g",
             " ","L","o","v","e","l","a","c","e">>
V10 == <<"1",".","0">>

Authors == {Str(Ada), Str(Grace), Null}

Files ==
    {Record(Str(Dungeon), a, Str(V10)) : a \in Authors}
        \cup {NoFile, Malformed, NonRecord}

Contents == {1, 2}

\* The name of a source directory, or the stem of a source archive
Pack == <<"p","a","c","k">>

\* Install sources: a directory, or an archive of the same tree
Source(f, c) == [stem |-> Pack, tree |-> Tree(f, c)]

Sources == {Source(f, c) : f \in Files, c \in Contents}

\* Answers typed at a prompt; the empty answer is a bare return
NoAnswer == <<>>
Responses == {<<"y">>, <<"Y">>, <<"n">>, NoAnswer}

----------------------------------------------------------------------------
(* State machine *)

\* The record of the operation that ran last
Log(op, file, d) ==
    [op |-> op, file |-> file, outcome |-> d.outcome, slug |-> d.slug,
     asked |-> d.asked, accepted |-> d.accepted]

Init ==
    /\ games = <<>>
    /\ zipped = <<>>
    /\ last = [op |-> "none", file |-> NoFile, outcome |-> "none", slug |-> <<>>,
               asked |-> FALSE, accepted |-> FALSE]
    /\ hist = <<>>
    /\ report = NoReport
    /\ temp = NoTemp

\* The roots stay within the bounds of the model
Within(d) ==
    /\ Cardinality(DOMAIN d.games) <= MaxGames
    /\ Cardinality(DOMAIN d.zipped) <= MaxZips

\* One operation with the summary it prints
ApplyReporting(op, file, result, rep) ==
    \E d \in {result} :
        /\ Within(d)
        /\ games' = d.games
        /\ zipped' = d.zipped
        /\ last' = Log(op, file, d)
        /\ report' = rep
        /\ temp' = Swept(temp, Staging(op))
        /\ UNCHANGED hist

\* One operation that prints no summary
Apply(op, file, result) == ApplyReporting(op, file, result, NoReport)

\* input() is reached only on the paths that prompt: elsewhere no answer is read
Answers(asked) == IF asked THEN Responses ELSE {NoAnswer}

\* An install that does not prompt reads no answer and ends as with none
InstallFromDirectory ==
    \E src \in Sources :
        \E unasked \in {InstallFromDirectoryResult(games, zipped, src, NoAnswer)} :
            \E resp \in Answers(unasked.asked) :
                Apply("install_dir", src.tree.file,
                      IF resp = NoAnswer THEN unasked
                      ELSE InstallFromDirectoryResult(games, zipped, src, resp))

InstallFromZip ==
    \E zp \in Sources :
        \E unasked \in {InstallFromZipResult(games, zipped, zp, NoAnswer, FALSE)} :
            \E resp \in Answers(unasked.asked) :
                Apply("install_zip", zp.tree.file,
                      IF resp = NoAnswer THEN unasked
                      ELSE InstallFromZipResult(games, zipped, zp, resp, FALSE))

RestoreFromZip ==
    \E stem \in DOMAIN zipped :
        \E unasked \in {RestoreFromZipResult(games, zipped, stem, NoAnswer)} :
            \E resp \in Answers(unasked.asked) :
                Apply("restore", zipped[stem].file,
                      IF resp = NoAnswer THEN unasked
                      ELSE RestoreFromZipResult(games, zipped, stem, resp))

UninstallGame ==
    \E slug \in GetAllGames(games), resp \in Responses :
        \E respZip \in Answers(Accepts(resp) /\ slug \in DOMAIN zipped) :
            ApplyReporting("uninstall", games[slug].file,
                           UninstallResult(games, zipped, slug, resp, respZip),
                           UninstallReport(zipped, slug, resp, respZip))

SyncZips ==
    \E resp \in Answers(SyncResult(games, zipped, NoAnswer).asked) :
        ApplyReporting("sync", NoFile, SyncResult(games, zipped, resp),
                       SyncReport(games, zipped, last.op = "sync"))

FindDuplicates ==
    \E o \in GameOrders(games) :
        \E unasked \in {FindDuplicatesResult(games, zipped, o, NoAnswer)} :
            \E resp \in Answers(unasked.asked) :
                ApplyReporting("dedupe", NoFile,
                               IF resp = NoAnswer THEN unasked
                               ELSE FindDuplicatesResult(games, zipped, o, resp),
                               DedupeReport(games))

Next ==
    \/ InstallFromDirectory
    \/ InstallFromZip
    \/ RestoreFromZip
    \/ UninstallGame
    \/ SyncZips
    \/ FindDuplicates

Spec == Init /\ [][Next]_vars

----------------------------------------------------------------------------
(* SpecIdentity: the resolver over a wider set of manifests.  Installs and
   uninstalls only, so that every step of the cascade is taken against
   installed sets with gaps in them. *)

MaxIdentityGames == 3

V20 == <<"2",".","0">>

IdentityFiles ==
    {Record(Str(Dungeon), Str(Ada), Str(V10)),
     Record(Str(Dungeon), Str(Ada), Str(V20)),
     Record(Str(Dungeon), Str(Grace), Str(V10)),
     Record(Str(Dungeon), Str(Grace), Null),
     Record(Str(Dungeon), Str(Augusta), Str(V10)),
     Record(Str(Dungeon), Absent, Absent),
     Record(Str(Dungeon), Null, Str(V10))}

WithinIdentity(d) ==
    /\ Cardinality(DOMAIN d.games) <= MaxIdentityGames
    /\ Cardinality(DOMAIN d.zipped) <= MaxIdentityGames

ApplyIdentity(op, file, result) ==
    \E d \in {result} :
        /\ WithinIdentity(d)
        /\ games' = d.games
        /\ zipped' = d.zipped
        /\ last' = Log(op, file, d)
        /\ report' = NoReport
        /\ temp' = Swept(temp, Staging(op))
        /\ UNCHANGED hist

IdentityInstall ==
    \E f \in IdentityFiles :
        \E resp \in Answers(InstallFromDirectoryResult(games, zipped, Source(f, 1), NoAnswer).asked) :
            ApplyIdentity("install_dir", f,
                          InstallFromDirectoryResult(games, zipped, Source(f, 1), resp))

\* The backup goes with the game here: the backups root mirrors the games root
IdentityUninstall ==
    \E slug \in GetAllGames(games), resp \in {<<"y">>, <<"n">>} :
        ApplyIdentity("uninstall", games[slug].file,
                      UninstallResult(games, zipped, slug, resp, <<"y">>))

NextIdentity == IdentityInstall \/ IdentityUninstall

SpecIdentity == Init /\ [][NextIdentity]_vars

----------------------------------------------------------------------------
(* SpecHistory: runs of directory installs from empty roots, each recorded
   in hist with what it was given and what it did. *)

MaxSteps == 5

LowerGrace == <<"g","r","a","c","e">>

HistSources ==
    {Source(Record(Str(Dungeon), Str(Ada), Str(V10)), 1),
     Source(Record(Str(Dungeon), Str(Ada), Str(V10)), 2),
     Source(Record(Str(Dungeon), Str(Grace), Str(V10)), 1),
     Source(Record(Str(Dungeon), Str(LowerGrace), Str(V10)), 1)}

\* One recorded install: the source, the answer and the outcome, with the
\* roots as the install left them
Entry(src, resp, d) ==
    [file |-> src.tree.file, content |-> src.tree.content, resp |-> resp,
     outcome |-> d.outcome, slug |-> d.slug, asked |-> d.asked,
     games |-> d.games, zipped |-> d.zipped]

RecordedInstall ==
    /\ Len(hist) < MaxSteps
    /\ \E src \in HistSources :
        \E resp \in Answers(InstallFromDirectoryResult(games, zipped, src, NoAnswer).asked) :
            \E d \in {InstallFromDirectoryResult(games, zipped, src, resp)} :
                /\ games' = d.games
                /\ zipped' = d.zipped
                /\ last' = Log("install_dir", src.tree.file, d)
                /\ hist' = Append(hist, Entry(src, resp, d))
                /\ report' = NoReport
                /\ temp' = Swept(temp, Staging("install_dir"))

NextHistory == RecordedInstall

SpecHistory == Init /\ [][NextHistory]_vars

----------------------------------------------------------------------------
(* SpecDefaults: installs of manifests that leave fields out, from a
   directory and from an archive, next to manifests that spell the documented
   defaults out. *)

MaxDefaultsGames == 2

\* A manifest with no name: the key is not in the file
Nameless == Record(Absent, Str(Ada), Str(V10))

DefaultsFiles ==
    {Record(Str(Dungeon), Absent, Str(V10)),
     Record(Str(Dungeon), Str(Unknown), Str(V10)),
     Record(Str(Dungeon), Str(Ada), Absent),
     Record(Str(Dungeon), Str(Ada), Str(DefaultVersion)),
     Nameless}

WithinDefaults(d) ==
    /\ Cardinality(DOMAIN d.games) <= MaxDefaultsGames
    /\ Cardinality(DOMAIN d.zipped) <= MaxDefaultsGames

ApplyDefaults(op, file, result) ==
    \E d \in {result} :
        /\ WithinDefaults(d)
        /\ games' = d.games
        /\ zipped' = d.zipped
        /\ last' = Log(op, file, d)
        /\ report' = NoReport
        /\ temp' = Swept(temp, Staging(op))
        /\ UNCHANGED hist

DefaultsInstallDir ==
    \E f \in DefaultsFiles, c \in Contents :
        \E resp \in Answers(InstallFromDirectoryResult(games, zipped, Source(f, c), NoAnswer).asked) :
            ApplyDefaults("install_dir", f,
                          InstallFromDirectoryResult(games, zipped, Source(f, c), resp))

DefaultsInstallZip ==
    \E f \in DefaultsFiles, c \in Contents :
        \E resp \in Answers(InstallFromZipResult(games, zipped, Source(f, c), NoAnswer, FALSE).asked) :
            ApplyDefaults("install_zip", f,
                          InstallFromZipResult(games, zipped, Source(f, c), resp, FALSE))

DefaultsUninstall ==
    \E slug \in GetAllGames(games), resp \in {<<"y">>, <<"n">>} :
        ApplyDefaults("uninstall", games[slug].file,
                      UninstallResult(games, zipped, slug, resp, <<"y">>))

NextDefaults == DefaultsInstallDir \/ DefaultsInstallZip \/ DefaultsUninstall

SpecDefaults == Init /\ [][NextDefaults]_vars

----------------------------------------------------------------------------
(* SpecIntake: install_game over sources of zero, one and two manifests, as a
   directory and as an archive of the same tree, and batch installs. *)

MaxIntakeGames == 2
MaxItems == 2

Alpha == <<"a","l","p","h","a">>
Beta == <<"b","e","t","a">>

\* A file name that ends with the manifest file name
EndGameJson == <<"e","n","d">> \o GameJson

Top == <<>>

Package(folders) == [stem |-> Pack, folders |-> folders]

IntakeSources ==
    {Package(<<Folder(Top, Record(Str(Dungeon), Str(Ada), Str(V10)), 1, {})>>),
     Package(<<Folder(Top, Record(Str(Dungeon), Str(Ada), Str(V10)), 2, {EndGameJson})>>),
     Package(<<Folder(Top, NoFile, 1, {})>>),
     Package(<<Folder(Top, NoFile, 1, {EndGameJson})>>),
     Package(<<Folder(Top, Nameless, 1, {})>>),
     Package(<<Folder(<<Alpha>>, Record(Str(Dungeon), Str(Grace), Str(V10)), 1, {}),
               Folder(<<Alpha, Beta>>, Record(Str(Dungeon), Str(Ada), Str(V10)), 1, {})>>),
     Package(<<Folder(<<Alpha>>, Malformed, 1, {}),
               Folder(<<Beta>>, Record(Str(Dungeon), Str(Ada), Str(V10)), 1, {})>>),
     Package(<<Folder(<<Alpha>>, NonRecord, 1, {}),
               Folder(<<Beta>>, Record(Str(Dungeon), Str(Grace), Str(V10)), 2, {})>>)}

\* An entry of a batch: a source of one game or of none, and whether it can
\* be opened (a valid zip file, a download that succeeds)
Entry1(f, fetched) == [src |-> Package(<<Folder(Top, f, 1, {})>>), fetched |-> fetched]

BatchLists ==
    {<<Entry1(Record(Str(Dungeon), Str(Ada), Str(V10)), TRUE)>>,
     <<Entry1(Malformed, TRUE), Entry1(Record(Str(Dungeon), Str(Ada), Str(V10)), TRUE)>>,
     <<Entry1(Record(Str(Dungeon), Str(Ada), Str(V10)), TRUE), Entry1(NonRecord, TRUE)>>,
     <<Entry1(NoFile, TRUE), Entry1(Nameless, TRUE)>>,
     <<Entry1(Record(Str(Dungeon), Str(Ada), Str(V10)), FALSE),
       Entry1(Record(Str(Dungeon), Str(Grace), Str(V10)), TRUE)>>}

\* batch_install lists the directories that hold a game.json, every *.zip file,
\* or every line of the list; a directory that is listed is there
Listed(it, kind) ==
    IF kind = "dir" THEN it.fetched /\ GameDirs(it.src) # <<>> ELSE TRUE

Batches(kind) ==
    {b \in BatchLists : Len(b) <= MaxItems /\ \A i \in DOMAIN b : Listed(b[i], kind)}

\* The answers of one run: to "Install all?" and to each "Overwrite?"
AllAnswers ==
    {[all |-> <<"y">>, each |-> <<"y">>],
     [all |-> <<"y">>, each |-> <<"n">>],
     [all |-> <<"n">>, each |-> <<"n">>]}

WithinIntake(d) ==
    /\ Cardinality(DOMAIN d.games) <= MaxIntakeGames
    /\ Cardinality(DOMAIN d.zipped) <= MaxIntakeGames

ApplyIntake(op, file, o, given) ==
    /\ WithinIntake(o.done)
    /\ games' = o.done.games
    /\ zipped' = o.done.zipped
    /\ last' = Log(op, file, o.done)
    /\ report' = [o.rep EXCEPT !.given = given]
    /\ temp' = Swept(temp, Staging(op))
    /\ UNCHANGED hist

\* The manifest a single install read; none is logged for a collection
ManifestOf(src, o) == IF o.rep.mode = "single" THEN FirstGame(src).file ELSE NoFile

InstallGame ==
    \E src \in IntakeSources, kind \in {"dir", "zip"}, force \in BOOLEAN, ans \in AllAnswers :
        \E o \in {InstallGameResult(games, zipped, src, kind, force, ans)} :
            ApplyIntake("install_game", ManifestOf(src, o), o,
                        [NoReport.given EXCEPT !.src = src, !.kind = kind, !.forced = force])

BatchInstall ==
    \E kind \in {"dir", "zip", "url"}, ans \in AllAnswers :
        \E items \in Batches(kind) :
            \E o \in {BatchInstallResult(games, zipped, items, kind, ans)} :
                ApplyIntake("batch_install", NoFile, o,
                            [NoReport.given EXCEPT !.kind = kind, !.batch = items])

NextIntake == InstallGame \/ BatchInstall

SpecIntake == Init /\ [][NextIntake]_vars

----------------------------------------------------------------------------
(* SpecDedupe: installs that leave the same manifest under several slugs,
   with the keys of the file in one order or another, and find_duplicates
   over them. *)

MaxDedupeGames == 3

\* The manifest of Dungeon by Grace with its keys in another order
GraceReordered ==
    RecordInOrder(Str(Dungeon), Str(Grace), Str(V10), <<KeyVersion, KeyName, KeyAuthor>>)

DedupeSources ==
    {Source(Record(Str(Dungeon), Str(Grace), Str(V10)), 1),
     Source(GraceReordered, 2),
     Source(Record(Str(Dungeon), Str(Grace), Absent), 1)}

WithinDedupe(d) ==
    /\ Cardinality(DOMAIN d.games) <= MaxDedupeGames
    /\ Cardinality(DOMAIN d.zipped) <= MaxDedupeGames

ApplyDedupe(op, file, result, rep) ==
    \E d \in {result} :
        /\ WithinDedupe(d)
        /\ games' = d.games
        /\ zipped' = d.zipped
        /\ last' = Log(op, file, d)
        /\ report' = rep
        /\ temp' = Swept(temp, Staging(op))
        /\ UNCHANGED hist

DedupeInstall ==
    \E src \in DedupeSources :
        \E unasked \in {InstallFromDirectoryResult(games, zipped, src, NoAnswer)} :
            \E resp \in Answers(unasked.asked) :
                ApplyDedupe("install_dir", src.tree.file,
                            IF resp = NoAnswer THEN unasked
                            ELSE InstallFromDirectoryResult(games, zipped, src, resp),
                            NoReport)

DedupeUninstall ==
    \E slug \in GetAllGames(games) :
        ApplyDedupe("uninstall", games[slug].file,
                    UninstallResult(games, zipped, slug, <<"y">>, <<"y">>), NoReport)

DedupeFind ==
    \E o \in GameOrders(games) :
        \E unasked \in {FindDuplicatesResult(games, zipped, o, NoAnswer)} :
            \E resp \in Answers(unasked.asked) :
                ApplyDedupe("dedupe", NoFile,
                            IF resp = NoAnswer THEN unasked
                            ELSE FindDuplicatesResult(games, zipped, o, resp),
                            DedupeListing(games, o, last.op = "dedupe"))

NextDedupe == DedupeInstall \/ DedupeUninstall \/ DedupeFind

SpecDedupe == Init /\ [][NextDedupe]_vars

----------------------------------------------------------------------------
(* SpecVersions: installs of several versions of one game, by one author and
   by another, and batch export over the installed games. *)

MaxVersionsGames == 3

\* A version with characters that are neither digits nor dots
V11b2 == <<"1",".","1","-","b","2">>

VersionsFiles ==
    {Record(Str(Dungeon), Str(Ada), Str(V10)),
     Record(Str(Dungeon), Str(Ada), Str(V20)),
     Record(Str(Dungeon), Str(Ada), Str(V11b2)),
     Record(Str(Dungeon), Str(Grace), Str(V10))}

WithinVersions(d) ==
    /\ Cardinality(DOMAIN d.games) <= MaxVersionsGames
    /\ Cardinality(DOMAIN d.zipped) <= MaxVersionsGames

ApplyVersions(op, file, result, rep) ==
    \E d \in {result} :
        /\ WithinVersions(d)
        /\ games' = d.games
        /\ zipped' = d.zipped
        /\ last' = Log(op, file, d)
        /\ report' = rep
        /\ temp' = Swept(temp, Staging(op))
        /\ UNCHANGED hist

VersionsInstall ==
    \E f \in VersionsFiles :
        \E unasked \in {InstallFromDirectoryResult(games, zipped, Source(f, 1), NoAnswer)} :
            \E resp \in IF unasked.asked THEN {<<"y">>, NoAnswer} ELSE {NoAnswer} :
                ApplyVersions("install_dir", f,
                              IF resp = NoAnswer THEN unasked
                              ELSE InstallFromDirectoryResult(games, zipped, Source(f, 1), resp),
                              NoReport)

VersionsUninstall ==
    \E slug \in GetAllGames(games) :
        ApplyVersions("uninstall", games[slug].file,
                      UninstallResult(games, zipped, slug, <<"y">>, <<"y">>), NoReport)

BatchExport ==
    \E o \in GameOrders(games), zip \in BOOLEAN :
        ApplyVersions("batch_export", NoFile, BatchExportResult(games, zipped, o),
                      ExportReport(games, o, zip))

NextVersions == VersionsInstall \/ VersionsUninstall \/ BatchExport

SpecVersions == Init /\ [][NextVersions]_vars

----------------------------------------------------------------------------
(* SpecArchive: install_game on directories, on archives and on URLs, over
   sources whose game lies at the top or in a subdirectory, with or without
   files outside the game's directory, and what is left of the download file
   and of the staging directories. *)

MaxArchiveGames == 2

Notes == <<"n","o","t","e","s">>

ArchiveSources ==
    {Package(<<Folder(Top, Record(Str(Dungeon), Str(Ada), Str(V10)), 1, {})>>),
     Package(<<Folder(<<Alpha>>, Record(Str(Dungeon), Str(Ada), Str(V10)), 1, {})>>),
     Package(<<Folder(Top, NoFile, 1, {Notes}),
               Folder(<<Alpha>>, Record(Str(Dungeon), Str(Grace), Str(V10)), 1, {})>>),
     Package(<<Folder(Top, NoFile, 1, {Notes})>>),
     Package(<<Folder(Top, Malformed, 1, {})>>),
     Package(<<Folder(<<Alpha>>, Record(Str(Dungeon), Str(Grace), Str(V10)), 1, {}),
               Folder(<<Beta>>, Record(Str(Dungeon), Str(Ada), Str(V10)), 1, {})>>)}

\* How a download ends
Fetches == {"http_error", "url_error", "cut_short", "not_zip", "ok"}

WithinArchive(d) ==
    /\ Cardinality(DOMAIN d.games) <= MaxArchiveGames
    /\ Cardinality(DOMAIN d.zipped) <= MaxArchiveGames

ApplyArchive(op, file, o, given, left) ==
    /\ WithinArchive(o.done)
    /\ games' = o.done.games
    /\ zipped' = o.done.zipped
    /\ last' = Log(op, file, o.done)
    /\ report' = [o.rep EXCEPT !.given = given]
    /\ temp' = left
    /\ UNCHANGED hist

\* The sources are installed as directories as they are classified, and as
\* archives also as forced collections
ArchiveInstall ==
    \E src \in ArchiveSources, kind \in {"dir", "zip"}, ans \in AllAnswers :
      \E force \in IF kind = "zip" THEN BOOLEAN ELSE {FALSE} :
        \E o \in {InstallGameResult(games, zipped, src, kind, force, ans)} :
            ApplyArchive("install_game", ManifestOf(src, o), o,
                         [NoReport.given EXCEPT !.src = src, !.kind = kind, !.forced = force],
                         IF kind = "zip" THEN ZipTemp(temp, src, o) ELSE temp)

\* The answers play no part in a download that fails; what is fetched is
\* installed as it is classified
UrlInstall ==
    \E src \in ArchiveSources, fetch \in Fetches :
      \E force \in {FALSE} :
        \E ans \in IF fetch = "ok" THEN AllAnswers ELSE {[all |-> NoAnswer, each |-> NoAnswer]} :
          \E o \in {InstallFromUrlResult(games, zipped, src, fetch, force, ans)} :
            ApplyArchive("install_url", ManifestOf(src, o), o,
                         [NoReport.given EXCEPT !.src = src, !.kind = "url", !.forced = force],
                         UrlTemp(temp, src, fetch, o))

ArchiveUninstall ==
    \E slug \in GetAllGames(games) :
        ApplyArchive("uninstall", games[slug].file,
                     Outcome(UninstallResult(games, zipped, slug, <<"y">>, <<"y">>), NoReport),
                     NoReport.given, temp)

NextArchive == ArchiveInstall \/ UrlInstall \/ ArchiveUninstall

SpecArchive == Init /\ [][NextArchive]_vars

----------------------------------------------------------------------------
(* SpecOwnership: runs of installs from directories and from archives of
   games that share a base slug: two versions by one author, another author,
   and a manifest that differs from an installed one in its name only. *)

MaxOwnershipGames == 3

LowerDungeon == <<"d","u","n","g","e","o","n">>

OwnershipFiles ==
    {Record(Str(Dungeon), Str(Ada), Str(V10)),
     Record(Str(Dungeon), Str(Ada), Str(V20)),
     Record(Str(Dungeon), Str(Grace), Str(V10)),
     Record(Str(LowerDungeon), Str(Ada), Str(V10))}

WithinOwnership(d) ==
    /\ Cardinality(DOMAIN d.games) <= MaxOwnershipGames
    /\ Cardinality(DOMAIN d.zipped) <= MaxOwnershipGames

ApplyOwnership(op, file, result) ==
    \E d \in {result} :
        /\ WithinOwnership(d)
        /\ games' = d.games
        /\ zipped' = d.zipped
        /\ last' = Log(op, file, d)
        /\ report' = NoReport
        /\ temp' = Swept(temp, Staging(op))
        /\ UNCHANGED hist

OwnershipInstallDir ==
    \E f \in OwnershipFiles, c \in Contents :
        \E unasked \in {InstallFromDirectoryResult(games, zipped, Source(f, c), NoAnswer)} :
            \E resp \in Answers(unasked.asked) :
                ApplyOwnership("install_dir", f,
                               IF resp = NoAnswer THEN unasked
                               ELSE InstallFromDirectoryResult(games, zipped,
                                                               Source(f, c), resp))

OwnershipInstallZip ==
    \E f \in OwnershipFiles, c \in Contents :
        \E unasked \in {InstallFromZipResult(games, zipped, Source(f, c), NoAnswer, FALSE)} :
            \E resp \in Answers(unasked.asked) :
                ApplyOwnership("install_zip", f,
                               IF resp = NoAnswer THEN unasked
                               ELSE InstallFromZipResult(games, zipped,
                                                         Source(f, c), resp, FALSE))

NextOwnership == OwnershipInstallDir \/ OwnershipInstallZip

SpecOwnership == Init /\ [][NextOwnership]_vars

----------------------------------------------------------------------------
(* SpecNames: installs of manifests whose name or author is not a plain
   word: the empty name, the names '.' and '..', and a name and an author
   with a path separator in them.  The paths are spelled in normal form: no
   separator at either end or doubled, no '.' or '..' next to one. *)

MaxNamesGames == 3

Empty == <<>>
Dot == <<".">>
DotDot == <<".", ".">>
KeepDungeon == <<"K","e","e","p","/","D","u","n","g","e","o","n">>
AdaGrace == <<"A","d","a","/","G","r","a","c","e">>

Names == {Dungeon, Empty, Dot, DotDot, KeepDungeon}

NamesFiles ==
    {Record(Str(n), Str(a), Str(V10)) : n \in Names, a \in {Ada, AdaGrace}}

WithinNames(d) ==
    /\ Cardinality(DOMAIN d.games) <= MaxNamesGames
    /\ Cardinality(DOMAIN d.zipped) <= MaxNamesGames

ApplyNames(op, file, result) ==
    \E d \in {result} :
        /\ WithinNames(d)
        /\ games' = d.games
        /\ zipped' = d.zipped
        /\ last' = Log(op, file, d)
        /\ report' = NoReport
        /\ temp' = Swept(temp, Staging(op))
        /\ UNCHANGED hist

NamesInstallDir ==
    \E f \in NamesFiles :
        \E unasked \in {InstallFromDirectoryResult(games, zipped, Source(f, 1), NoAnswer)} :
            \E resp \in IF unasked.asked THEN {<<"y">>, NoAnswer} ELSE {NoAnswer} :
                ApplyNames("install_dir", f,
                           IF resp = NoAnswer THEN unasked
                           ELSE InstallFromDirectoryResult(games, zipped,
                                                           Source(f, 1), resp))

NamesInstallZip ==
    \E f \in NamesFiles :
        \E unasked \in {InstallFromZipResult(games, zipped, Source(f, 1), NoAnswer, FALSE)} :
            \E resp \in IF unasked.asked THEN {<<"y">>, NoAnswer} ELSE {NoAnswer} :
                ApplyNames("install_zip", f,
                           IF resp = NoAnswer THEN unasked
                           ELSE InstallFromZipResult(games, zipped,
                                                     Source(f, 1), resp, FALSE))

NextNames == NamesInstallDir \/ NamesInstallZip

SpecNames == Init /\ [][NextNames]_vars

----------------------------------------------------------------------------
(* SpecSync: sync passes over roots that installs from directories and from
   archives and uninstalls have filled: games whose backup is the archive
   they came from and not their tree, games without a backup, and backups
   without a game. *)

MaxSyncGames == 2

SyncSources ==
    {Package(<<Folder(Top, Record(Str(Dungeon), Str(Ada), Str(V10)), 1, {})>>),
     Package(<<Folder(<<Alpha>>, Record(Str(Dungeon), Str(Ada), Str(V10)), 2, {})>>),
     Package(<<Folder(Top, NoFile, 1, {Notes}),
               Folder(<<Alpha>>, Record(Str(Dungeon), Str(Grace), Str(V10)), 1, {})>>)}

WithinSync(d) ==
    /\ Cardinality(DOMAIN d.games) <= MaxSyncGames
    /\ Cardinality(DOMAIN d.zipped) <= MaxSyncGames

ApplySync(op, file, o, left) ==
    /\ WithinSync(o.done)
    /\ games' = o.done.games
    /\ zipped' = o.done.zipped
    /\ last' = Log(op, file, o.done)
    /\ report' = o.rep
    /\ temp' = left
    /\ UNCHANGED hist

SyncInstall ==
    \E src \in SyncSources, kind \in {"dir", "zip"}, ans \in AllAnswers :
        \E o \in {InstallGameResult(games, zipped, src, kind, FALSE, ans)} :
            ApplySync("install_game", ManifestOf(src, o), o,
                      IF kind = "zip" THEN ZipTemp(temp, src, o) ELSE temp)

SyncUninstall ==
    \E slug \in GetAllGames(games), respZip \in {<<"y">>, <<"n">>} :
        ApplySync("uninstall", games[slug].file,
                  Outcome(UninstallResult(games, zipped, slug, <<"y">>, respZip),
                          NoReport),
                  temp)

SyncPass ==
    \E unasked \in {SyncResult(games, zipped, NoAnswer)} :
        \E resp \in Answers(unasked.asked) :
            ApplySync("sync", NoFile,
                      Outcome(IF resp = NoAnswer THEN unasked
                              ELSE SyncResult(games, zipped, resp),
                              SyncReport(games, zipped, last.op = "sync")),
                      temp)

NextSync == SyncInstall \/ SyncUninstall \/ SyncPass

SpecSync == Init /\ [][NextSync]_vars

----------------------------------------------------------------------------
(* SpecStaging: installs of archives of one game, some of them killed
   between the extraction and the end of the install, so that no finally
   clause runs and temp_extract stays as it is for the next install. *)

MaxStagingGames == 2

StagingSources ==
    {Package(<<Folder(Top, Record(Str(Dungeon), Str(Ada), Str(V10)), 1, {})>>),
     Package(<<Folder(Top, NoFile, 1, {Notes}),
               Folder(<<Alpha>>, Record(Str(Dungeon), Str(Grace), Str(V10)), 1, {})>>),
     Package(<<Folder(<<Alpha>>, Record(Str(Dungeon), Str(Ada), Str(V20)), 2, {})>>)}

WithinStaging(d) ==
    /\ Cardinality(DOMAIN d.games) <= MaxStagingGames
    /\ Cardinality(DOMAIN d.zipped) <= MaxStagingGames

ApplyStaging(op, src, d, left) ==
    /\ WithinStaging(d)
    /\ games' = d.games
    /\ zipped' = d.zipped
    /\ last' = Log(op, FirstGame([src EXCEPT !.folders = Staged(temp, src)]).file, d)
    /\ report' = [NoReport EXCEPT !.given.src = src, !.given.kind = "zip"]
    /\ temp' = left
    /\ UNCHANGED hist

\* install_game on an archive it classifies as one game, run to its end
StagingInstall ==
    \E src \in StagingSources, resp \in {<<"y">>, <<"n">>} :
        /\ ~IsCollectionZip(src)
        /\ \E d \in {InstallFromZipStaged(games, zipped, src, Staged(temp, src), resp)} :
            ApplyStaging("install_zip", src, d,
                         Finally([temp EXCEPT !.extract = Holding(Staged(temp, src))],
                                 {"extract"}, d.outcome))

\* The same install killed after extractall: nothing of the roots is
\* touched yet and the finally clause does not run
StagingKilled ==
    \E src \in StagingSources :
        /\ ~IsCollectionZip(src)
        /\ ApplyStaging("install_zip", src,
                        Done(games, zipped, "killed", <<>>, FALSE, FALSE),
                        [temp EXCEPT !.extract = Holding(Staged(temp, src))])

StagingUninstall ==
    \E slug \in GetAllGames(games) :
        /\ WithinStaging(UninstallResult(games, zipped, slug, <<"y">>, <<"y">>))
        /\ games' = Drop(games, slug)
        /\ zipped' = UninstallResult(games, zipped, slug, <<"y">>, <<"y">>).zipped
        /\ last' = Log("uninstall", games[slug].file,
                       UninstallResult(games, zipped, slug, <<"y">>, <<"y">>))
        /\ report' = NoReport
        /\ UNCHANGED <<temp, hist>>

NextStaging == StagingInstall \/ StagingKilled \/ StagingUninstall

SpecStaging == Init /\ [][NextStaging]_vars

----------------------------------------------------------------------------
(* Claims checked under Spec *)

InstallOps == {"install_dir", "install_zip"}

\* C1 (as claimed): after an install of manifest m has put a game on disk,
\* installing a manifest with the same name, author and version again resolves
\* to the same slug, asks for the overwrite confirmation and adds no slug.
C1_ReinstallIsUpdateInPlace ==
    (last.op \in InstallOps /\ last.outcome \in {"installed", "updated"}) =>
        \A c \in Contents :
            LET d == InstallFromDirectoryResult(games, zipped,
                                                Source(last.file, c), <<"y">>)
            IN  /\ d.slug = last.slug
                /\ d.asked
                /\ DOMAIN d.games = DOMAIN games

\* C2 (as claimed): an install, from a directory or an archive, whose
\* overwrite confirmation is declined leaves both roots exactly as they were.
C2_DeclineChangesNothing ==
    [][(last'.op \in InstallOps /\ last'.outcome = "cancelled")
            => (games' = games /\ zipped' = zipped)]_vars

\* C3 (as claimed): no operation deletes or overwrites an existing game
\* directory or an existing backup unless an accept was given in it.
C3_NoDestructionWithoutAccept ==
    [][((\E s \in DOMAIN games : s \notin DOMAIN games' \/ games'[s] # games[s])
         \/ (\E s \in DOMAIN zipped : s \notin DOMAIN zipped' \/ zipped'[s] # zipped[s]))
            => last'.accepted]_vars

\* C7 (as claimed): the resolver returns a slug for every parsed manifest
\* record, so an install of a record that has a name never ends by raising.
C7_ResolverNeverRaises ==
    (/\ last.op \in InstallOps
     /\ last.file.mstat = "record"
     /\ GetDefault(last.file.name, Pack).k = "str")
        => last.outcome # "raised"

\* C9 (as claimed): after every completed operation every installed game has
\* its backup <slug>.zip in the backups root.
C9_EveryGameHasBackup ==
    \A s \in GetAllGames(games) : s \in DOMAIN zipped

\* C10: an install, from a directory or an archive, of a source whose manifest
\* is not parseable or not a record ends without installing and leaves the
\* games root and the backups root as they were.
C10_InvalidManifestTouchesNothing ==
    [][(last'.op \in InstallOps /\ last'.file.mstat \in {"malformed", "nonrecord"})
            => (/\ games' = games
                /\ zipped' = zipped
                /\ last'.outcome \in {"invalid", "raised"})]_vars

\* C10 witness: an archive with an unparseable manifest was rejected while a
\* game and its backup were on disk.
C10_Witness ==
    /\ last.op = "install_zip"
    /\ last.file.mstat = "malformed"
    /\ last.outcome = "raised"
    /\ DOMAIN games # {}
    /\ DOMAIN zipped # {}

\* C17: a sync pass leaves every installed game that had no backup with a
\* backup of its tree, reports exactly those slugs as created, and leaves the
\* games root as it was.
C17_SyncCreatesMissingBackups ==
    [][last'.op = "sync" =>
        LET missing == {s \in DOMAIN games : s \notin DOMAIN zipped}
        IN  /\ \A s \in missing : s \in DOMAIN zipped' /\ zipped'[s] = games[s]
            /\ report'.created = missing
            /\ games' = games
      ]_vars

\* C17 witness: a sync pass created a backup that was missing.
C17_Witness ==
    /\ last.op = "sync"
    /\ report.created # {}
    /\ \A s \in report.created : s \in DOMAIN zipped /\ zipped[s] = games[s]

\* C18 (as claimed): a sync pass that directly follows a sync pass creates no
\* backup and reports the orphan set the pass before it reported.
C18_SecondSyncReportsSameOrphans ==
    [][(last.op = "sync" /\ last'.op = "sync") =>
        /\ report'.created = {}
        /\ report'.orphaned = report.orphaned
      ]_vars

\* C18 (amended): a sync pass that directly follows a sync pass creates no
\* backup; it reports the orphan set of the pass before it when the deletion
\* of the orphans was declined there, and no orphan when it was accepted.
C18_SecondSyncCreatesNothing ==
    [][(last.op = "sync" /\ last'.op = "sync") =>
        /\ report'.created = {}
        /\ report'.orphaned = IF last.accepted THEN {} ELSE report.orphaned
        /\ games' = games
        /\ ~last'.accepted => zipped' = zipped
      ]_vars

\* C18 witness: a second sync pass in a row created nothing and reported the
\* orphans the first had been told to keep.
C18_Witness ==
    /\ last.op = "sync"
    /\ report.again
    /\ report.created = {}
    /\ report.orphaned # {}
    /\ DOMAIN games # {}

\* C19: the orphans a sync pass reports are exactly the backups whose slug is
\* not installed; the pass deletes backups only among those and only on an
\* accept, then all of them; a decline deletes nothing, and the backup of an
\* installed slug is never deleted or changed.
C19_OrphansDeletedOnlyOnAccept ==
    [][last'.op = "sync" =>
        LET orphans == {s \in DOMAIN zipped : s \notin DOMAIN games}
            deleted == DOMAIN zipped \ DOMAIN zipped'
        IN  /\ report'.orphaned = orphans
            /\ deleted = IF last'.accepted THEN orphans ELSE {}
            /\ last'.asked = (orphans # {})
            /\ \A s \in DOMAIN zipped \cap DOMAIN games :
                  s \in DOMAIN zipped' /\ zipped'[s] = zipped[s]
      ]_vars

\* C19 witness: a sync pass deleted the orphaned backups on an accept and
\* kept the backup of an installed game.
C19_Witness ==
    /\ last.op = "sync" /\ last.accepted
    /\ report.orphaned # {}
    /\ report.orphaned \cap DOMAIN zipped = {}
    /\ DOMAIN games \cap DOMAIN zipped # {}

\* C26: when a game has been uninstalled and its backup kept, restoring
\* from that backup ends without an exception and puts the game back under
\* the same slug with the manifest it had, the backup still there.
C26_RestoreBringsGameBack ==
    (last.op = "uninstall" /\ last.accepted /\ last.slug \in DOMAIN zipped) =>
        \A resp \in Responses :
            LET d == RestoreFromZipResult(games, zipped, last.slug, resp)
            IN  /\ d.outcome = "installed"
                /\ d.slug = last.slug
                /\ last.slug \in DOMAIN d.games
                /\ d.games[last.slug].file = last.file
                /\ last.slug \in DOMAIN d.zipped

\* C29: a declined uninstall changes nothing; an accepted one removes the
\* directory of the selected game and of no other; the backup of the selected
\* slug is the only backup that can go, and it goes only on a second accept;
\* a backup that is kept is an orphan the sync pass that follows reports.
C29_UninstallRemovesOnlySelected ==
    [][/\ last'.op = "uninstall" =>
            LET s == last'.slug IN
            /\ ~last'.accepted => (games' = games /\ zipped' = zipped)
            /\ last'.accepted =>
                /\ s \in DOMAIN games /\ games' = Drop(games, s)
                /\ zipped' = IF report'.backup = "removed" THEN Drop(zipped, s)
                             ELSE zipped
                /\ report'.backup = "none" <=> s \notin DOMAIN zipped
       /\ (last.op = "uninstall" /\ last.accepted /\ last.slug \in DOMAIN zipped
               /\ last'.op = "sync") =>
            last.slug \in report'.orphaned
      ]_vars

\* C29 witness: an accepted uninstall removed one game, left another game
\* with its backup, and kept the backup of the removed game.
C29_Witness ==
    /\ last.op = "uninstall" /\ last.accepted
    /\ last.slug \notin DOMAIN games
    /\ last.slug \in DOMAIN zipped /\ report.backup = "kept"
    /\ DOMAIN games \cap DOMAIN zipped # {}

----------------------------------------------------------------------------
(* Claims checked under SpecIdentity *)

DungeonSlug == <<"d","u","n","g","e","o","n">>

\* The author slug as the specification words it: the author lowercased,
\* spaces replaced by hyphens, the first 20 characters of that
ExpectedAuthorSlug(author) ==
    LET l == SpacesToHyphens(Lower(author))
    IN  [i \in 1..(IF Len(l) < 20 THEN Len(l) ELSE 20) |-> l[i]]

ExpectedSlugWithAuthor(base, author) ==
    base \o <<"-","b","y","-">> \o ExpectedAuthorSlug(author)

\* Two installs in a row from roots g, z, no answer given at any prompt
TwoInstalls(g, z, f1, f2) ==
    LET d1 == InstallFromDirectoryResult(g, z, Source(f1, 1), NoAnswer)
        d2 == InstallFromDirectoryResult(d1.games, d1.zipped, Source(f2, 1), NoAnswer)
    IN  <<d1, d2>>

\* f1 then f2 installed: the first under the base slug, the second under
\* <base>-by-<author slug of f2>, both on disk
BaseThenAuthorSuffix(g, z, f1, f2) ==
    LET d == TwoInstalls(g, z, f1, f2)
        base == BaseSlug(f1.name.s)
    IN  /\ d[1].outcome = "installed" /\ d[1].slug = base
        /\ d[2].outcome = "installed"
        /\ d[2].slug = ExpectedSlugWithAuthor(base, f2.author.s)
        /\ d[2].slug # d[1].slug
        /\ {d[1].slug, d[2].slug} \subseteq DOMAIN d[2].games

\* Two manifests of the same base slug whose authors differ, the second's a string
DifferentAuthors(f1, f2) ==
    /\ BaseSlug(f1.name.s) = BaseSlug(f2.name.s)
    /\ f2.author.k = "str"
    /\ Get(f1.author) # Get(f2.author)

\* C4 (as claimed): from any state where the base slug is free, installing two
\* manifests of the same base slug and different authors puts the first under
\* the base slug and the second under <base>-by-<author-slug>.
C4_SecondAuthorGetsSuffix ==
    \A f1, f2 \in IdentityFiles :
        (DifferentAuthors(f1, f2) /\ BaseSlug(f1.name.s) \notin DOMAIN games)
            => BaseThenAuthorSuffix(games, zipped, f1, f2)

\* C4 (amended): the same, from states where <base>-by-<author-slug> is free too.
C4_SecondAuthorGetsSuffixIfFree ==
    \A f1, f2 \in IdentityFiles :
        (/\ DifferentAuthors(f1, f2)
         /\ BaseSlug(f1.name.s) \notin DOMAIN games
         /\ ExpectedSlugWithAuthor(BaseSlug(f1.name.s), f2.author.s) \notin DOMAIN games)
            => BaseThenAuthorSuffix(games, zipped, f1, f2)

\* C4 witness: the second of two authors was just installed under the base
\* slug plus its author slug, cut to 20 characters.
C4_Witness ==
    /\ last.op = "install_dir" /\ last.outcome = "installed"
    /\ last.file.author = Str(Augusta)
    /\ Len(Augusta) > 20
    /\ last.slug = DungeonSlug \o <<"-","b","y","-">> \o
                   <<"a","u","g","u","s","t","a","-","a","d","a","-","k","i","n","g",
                     "-","l","o","v">>
    /\ DungeonSlug \in DOMAIN games
    /\ Get(games[DungeonSlug].file.author) # Get(last.file.author)

\* C5: whatever the installed set and the manifest, a slug the resolver
\* returns either names no directory of the games root, or is the base slug
\* whose occupant's manifest has the author and version of the incoming one.
C5_ResolvedSlugIsFreeOrUpdate ==
    \A f \in IdentityFiles :
        LET base == BaseSlug(f.name.s)
            r == GetUniqueSlug(games, base, f)
        IN  ~r.raised =>
                \/ r.slug \notin DOMAIN games
                \/ /\ r.slug = base
                   /\ games[base].file.mstat = "record"
                   /\ Get(games[base].file.author) = Get(f.author)
                   /\ Get(games[base].file.version) = Get(f.version)

\* C5 witness: an install resolved to the occupied base slug and replaced its
\* occupant, next to games the cascade had given other slugs.
C5_Witness ==
    /\ last.op = "install_dir" /\ last.outcome = "updated"
    /\ last.slug = DungeonSlug
    /\ Cardinality(DOMAIN games) = MaxIdentityGames

----------------------------------------------------------------------------
(* Claims checked under SpecHistory *)

DungeonByGrace == DungeonSlug \o <<"-","b","y","-","g","r","a","c","e">>

DungeonByGraceV10 == DungeonByGrace \o <<"-","v","1","0">>

\* The numeric counter of a recorded install's slug, 0 when it has none
CounterOf(e) ==
    IF \E c \in 2..(MaxSteps + 2) : e.slug = DungeonByGraceV10 \o <<"-">> \o IntToStr(c)
    THEN CHOOSE c \in 2..(MaxSteps + 2) : e.slug = DungeonByGraceV10 \o <<"-">> \o IntToStr(c)
    ELSE 0

\* Two manifests that collide on base slug, author suffix and version tag
Collide(f1, f2) ==
    /\ BaseSlug(f1.name.s) = BaseSlug(f2.name.s)
    /\ ExpectedAuthorSlug(f1.author.s) = ExpectedAuthorSlug(f2.author.s)
    /\ DropDots(f1.version.s) = DropDots(f2.version.s)

\* The counters of the recorded installs strictly increase, from 2, by one
CountersIncreaseFromTwo ==
    /\ \A i, j \in DOMAIN hist :
        (i < j /\ CounterOf(hist[i]) # 0 /\ CounterOf(hist[j]) # 0)
            => CounterOf(hist[i]) < CounterOf(hist[j])
    /\ \A j \in DOMAIN hist :
        CounterOf(hist[j]) > 2
            => \E i \in 1..(j - 1) : CounterOf(hist[i]) = CounterOf(hist[j]) - 1

\* C6 (as claimed): in a run of 4 or more installs whose manifests all collide
\* on base slug, author suffix and version tag, the resolved slugs are
\* pairwise distinct and the counters strictly increase from 2.
C6_CollidingInstallsGetDistinctSlugs ==
    (/\ Len(hist) >= 4
     /\ \A i, j \in DOMAIN hist : Collide(hist[i].file, hist[j].file))
        => /\ \A i, j \in DOMAIN hist : i # j => hist[i].slug # hist[j].slug
           /\ CountersIncreaseFromTwo

\* C6 (amended): in a run of installs from an empty games root, the installs
\* whose author and version are not those of the base slug's occupant get
\* pairwise distinct slugs, each free when resolved, and the counters of those
\* that reach the counter step strictly increase from 2; an install whose
\* author and version are the occupant's resolves to the base slug again.
C6_CascadeGivesFreshSlugs ==
    /\ \A i, j \in DOMAIN hist :
        (i # j /\ hist[i].outcome = "installed" /\ hist[j].outcome = "installed")
            => hist[i].slug # hist[j].slug
    /\ CountersIncreaseFromTwo
    /\ \A j \in DOMAIN hist :
        IF SameGame(hist[1].file, hist[j].file)
        THEN hist[j].slug = DungeonSlug
        ELSE hist[j].outcome = "installed" /\ hist[j].slug # DungeonSlug

\* C6 witness: a run of colliding installs went through the author suffix and
\* the version tag and was given the counters 2 and 3.
C6_Witness ==
    /\ Len(hist) >= 4
    /\ \A i, j \in DOMAIN hist : Collide(hist[i].file, hist[j].file)
    /\ \E i, j \in DOMAIN hist :
        i < j /\ CounterOf(hist[i]) = 2 /\ CounterOf(hist[j]) = 3

AdaFile == Record(Str(Dungeon), Str(Ada), Str(V10))
GraceFile == Record(Str(Dungeon), Str(Grace), Str(V10))

\* The first step of the scenario: Dungeon by Ada installed into empty roots
ScenarioFirst == Len(hist) >= 1 /\ hist[1].file = AdaFile

\* The second: the same manifest from another source, the overwrite accepted
ScenarioSecond ==
    /\ ScenarioFirst /\ Len(hist) >= 2
    /\ hist[2].file = AdaFile
    /\ hist[2].content # hist[1].content

\* The third: Dungeon by Grace
ScenarioThird ==
    /\ ScenarioSecond /\ Accepts(hist[2].resp) /\ Len(hist) >= 3
    /\ hist[3].file = GraceFile

\* C8: the end-to-end scenario. The first install yields slug dungeon with
\* games/dungeon and dungeon.zip; the re-install from another source resolves
\* to dungeon, asks, and on accept the game and its backup hold the new
\* content; Dungeon by Grace then goes to dungeon-by-grace with its directory
\* and backup, and dungeon and dungeon.zip are as they were.
C8_EndToEnd ==
    /\ ScenarioFirst =>
        /\ hist[1].outcome = "installed" /\ hist[1].slug = DungeonSlug
        /\ hist[1].games = (DungeonSlug :> Tree(AdaFile, hist[1].content))
        /\ hist[1].zipped = (DungeonSlug :> Tree(AdaFile, hist[1].content))
    /\ ScenarioSecond =>
        /\ hist[2].slug = DungeonSlug /\ hist[2].asked
        /\ IF Accepts(hist[2].resp)
           THEN /\ hist[2].outcome = "updated"
                /\ hist[2].games = (DungeonSlug :> Tree(AdaFile, hist[2].content))
                /\ hist[2].zipped = (DungeonSlug :> Tree(AdaFile, hist[2].content))
           ELSE /\ hist[2].games = hist[1].games
                /\ hist[2].zipped = hist[1].zipped
    /\ ScenarioThird =>
        /\ hist[3].outcome = "installed" /\ hist[3].slug = DungeonByGrace
        /\ hist[3].games = (DungeonSlug :> Tree(AdaFile, hist[2].content)
                            @@ DungeonByGrace :> Tree(GraceFile, hist[3].content))
        /\ hist[3].zipped = hist[3].games

\* C8 witness: the three steps of the scenario were run, the overwrite accepted.
C8_Witness ==
    /\ Len(hist) = 3 /\ ScenarioThird
    /\ games = hist[3].games /\ zipped = hist[3].zipped
    /\ DOMAIN games = {DungeonSlug, DungeonByGrace}

----------------------------------------------------------------------------
(* Claims checked under SpecDefaults *)

\* C11 (as claimed): an install, from a directory or an archive, of a manifest
\* record that has no name key fails validation: nothing is installed and no
\* slug is derived for it from the name of the source.
C11_NamelessManifestIsRejected ==
    (/\ last.op \in InstallOps
     /\ last.file.mstat = "record"
     /\ last.file.name.k = "absent")
        => /\ last.outcome \notin {"installed", "updated", "cancelled"}
           /\ last.slug = <<>>
           /\ BaseSlug(Pack) \notin DOMAIN games

\* Two manifests that are the same game once the documented defaults stand
\* in for the keys that are absent: author "unknown", version "1.0"
SameByDefaults(f1, f2) ==
    /\ f1.name = f2.name
    /\ GetDefault(f1.author, <<"u","n","k","n","o","w","n">>)
            = GetDefault(f2.author, <<"u","n","k","n","o","w","n">>)
    /\ GetDefault(f1.version, <<"1",".","0">>) = GetDefault(f2.version, <<"1",".","0">>)

\* C12 (as claimed): once a manifest is installed under its base slug, an
\* install of a manifest that is the same game by the documented defaults
\* (author absent for "unknown", version absent for "1.0", or the other way
\* round) resolves to that slug and asks to overwrite: an update in place.
C12_AbsentFieldsEqualDefaults ==
    (/\ last.op \in InstallOps
     /\ last.outcome \in {"installed", "updated"}
     /\ last.file.name.k = "str"
     /\ last.slug = BaseSlug(last.file.name.s))
        => \A f \in DefaultsFiles :
              SameByDefaults(last.file, f) =>
                  LET d == InstallFromDirectoryResult(games, zipped, Source(f, 1), <<"y">>)
                  IN  /\ d.slug = last.slug
                      /\ d.asked
                      /\ DOMAIN d.games = DOMAIN games

----------------------------------------------------------------------------
(* Claims checked under SpecIntake *)

\* N: the number of manifest files anywhere under a source
ManifestCount(src) ==
    Cardinality({i \in DOMAIN src.folders : src.folders[i].tree.file.mstat # "missing"})

\* The other way to hand the same tree to install_game
OtherKind(kind) == IF kind = "dir" THEN "zip" ELSE "dir"

\* C13 (as claimed): install_game on a directory or an archive with N manifest
\* files under it installs nothing when N = 0, goes the single route when
\* N = 1 unless collection mode is forced (then the collection route, over one
\* game), goes the collection route when N >= 2, and for N >= 1 takes the same
\* route for the tree given the other way.
C13_ClassifiedByManifestCount ==
    [][last'.op = "install_game" =>
        LET given == report'.given
            n == ManifestCount(given.src)
        IN  /\ n = 0 =>
                /\ games' = games /\ zipped' = zipped
                /\ last'.outcome \in {"no_manifest", "no_games"}
            /\ (n = 1 /\ ~given.forced) => report'.mode = "single"
            /\ (n = 1 /\ given.forced) =>
                /\ report'.mode = "collection"
                /\ last'.outcome = "collected" => Len(report'.items) = 1
            /\ n >= 2 => report'.mode = "collection"
            /\ n >= 1 =>
                report'.mode =
                    InstallGameResult(games, zipped, given.src, OtherKind(given.kind),
                                      given.forced, [all |-> <<"n">>, each |-> <<"n">>]).rep.mode
      ]_vars

RECURSIVE FinalSegment(_)
\* The part of a path after its last "/"
FinalSegment(path) ==
    IF \E i \in DOMAIN path : path[i] = "/" THEN FinalSegment(Tail(path)) ELSE path

\* The entries of an archive whose final path segment is the manifest file name
ManifestEntries(src) ==
    {e \in NameList(src) :
        FinalSegment(e[2]) = <<"g","a","m","e",".","j","s","o","n">>}

\* C14 (as claimed): an archive given to install_game without forcing is
\* taken for a collection exactly when more than one of its entries has the
\* final path segment game.json; an entry whose final segment only ends with
\* that text is not counted.
C14_OnlyExactNameCounts ==
    (/\ last.op = "install_game"
     /\ report.given.kind = "zip"
     /\ ~report.given.forced)
        => (report.mode = "collection"
                <=> Cardinality(ManifestEntries(report.given.src)) > 1)

\* An item whose install put a game on disk
Installed(e) == e.outcome \in {"installed", "updated"}

\* An item whose install could not be done
Failed(e) ==
    e.outcome \in {"invalid", "no_manifest", "raised", "download_failed", "not_zip"}

\* A manifest nothing keeps from being installed
Sound(f) ==
    /\ f.mstat = "record"
    /\ f.name.k # "null" /\ f.author.k # "null" /\ f.version.k # "null"

\* The number of items a collection or batch install was given
ItemsGiven(op, given) ==
    IF op = "batch_install" THEN Len(given.batch) ELSE ManifestCount(given.src)

\* C15: a collection install or a batch install that was confirmed goes
\* through every item it was given, whatever happened to the items before:
\* every item with a sound manifest that could be fetched is installed (or asks
\* to overwrite and is declined), every game on disk before is still there,
\* and an item that was installed stays installed as it was unless a later
\* item of the same slug updated it.
C15_FailuresAreIsolated ==
    [][last'.outcome \in {"collected", "batched"} =>
        LET items == report'.items
            given == report'.given
        IN  /\ Len(items) = ItemsGiven(last'.op, given)
            /\ DOMAIN games \subseteq DOMAIN games'
            /\ \A i \in DOMAIN items :
                /\ Installed(items[i]) =>
                    /\ items[i].slug \in DOMAIN games'
                    /\ \/ games'[items[i].slug] = items[i].tree
                       \/ \E j \in (i + 1)..Len(items) :
                            items[j].slug = items[i].slug /\ items[j].outcome = "updated"
                /\ (/\ Sound(items[i].tree.file)
                    /\ last'.op = "batch_install" => given.batch[i].fetched)
                        => (Installed(items[i]) \/ items[i].outcome = "cancelled")
      ]_vars

\* C15 witness: a collection whose first item failed had its second item
\* installed, next to a game that was on disk before.
C15_Witness ==
    /\ last.op = "install_game" /\ last.outcome = "collected"
    /\ Len(report.items) = 2
    /\ Failed(report.items[1])
    /\ report.items[2].outcome = "installed"
    /\ Cardinality(DOMAIN games) = 2

\* C16 (as claimed): the two counts printed at the end of a collection or
\* batch install add up to the number of items, every item that was installed
\* is among the successes and every item that could not be installed (invalid
\* or missing manifest, failed download, invalid archive) among the failures.
C16_TallyIsAccurate ==
    last.outcome \in {"collected", "batched"} =>
        /\ report.successful + report.failed = Len(report.items)
        /\ report.successful >=
              Cardinality({i \in DOMAIN report.items : Installed(report.items[i])})
        /\ report.failed >=
              Cardinality({i \in DOMAIN report.items : Failed(report.items[i])})

----------------------------------------------------------------------------
(* Claims checked under SpecDedupe *)

\* Two manifests equal as records: the same keys with the same values
SameRecord(f1, f2) ==
    /\ f1.name = f2.name
    /\ f1.author = f2.author
    /\ f1.version = f2.version

\* C20: find_duplicates lists two installed games in one set of duplicates
\* exactly when their manifests are equal as records, whatever the order of
\* the keys in the two files and whatever the games' other files are.
C20_GroupedIffSameManifest ==
    [][last'.op = "dedupe" =>
        /\ \A G \in report'.groups : G \subseteq DOMAIN games
        /\ \A x, y \in DOMAIN games :
              x # y =>
                  ((\E G \in report'.groups : {x, y} \subseteq G)
                      <=> SameRecord(games[x].file, games[y].file))
      ]_vars

\* C20 witness: find_duplicates listed as duplicates two games whose files
\* have the keys in different orders and whose other files differ, and left
\* out a third game of the same name and author with another version.
C20_Witness ==
    /\ last.op = "dedupe" /\ last.outcome = "cancelled"
    /\ \E G \in report.groups :
        /\ \E x, y \in G :
            /\ games[x].file.keys # games[y].file.keys
            /\ games[x].content # games[y].content
        /\ \E s \in DOMAIN games \ G, x \in G :
            /\ games[s].file.author = games[x].file.author
            /\ games[s].file.version # games[x].file.version

\* The installed games whose manifest is the manifest of s
Copies(g, s) == {x \in DOMAIN g : SameRecord(g[x].file, g[s].file)}

\* The member of the set G that the list o has first
FirstListed(o, G) ==
    CHOOSE x \in G : \A y \in G : IndexOf(o, x) <= IndexOf(o, y)

\* s has in the roots after the step what it had before it
Untouched(s) ==
    /\ s \in DOMAIN games' /\ games'[s] = games[s]
    /\ (s \in DOMAIN zipped) = (s \in DOMAIN zipped')
    /\ s \in DOMAIN zipped => zipped'[s] = zipped[s]

\* C21: after an accepted prune, of the games that share a manifest only the
\* one listed first is left, with its directory and backup as they were; the
\* directory and the backup of every other copy are gone; a game whose
\* manifest no other game has is as it was.
C21_PruneKeepsFirstOfEachGroup ==
    [][(last'.op = "dedupe" /\ last'.accepted) =>
        \A s \in DOMAIN games :
            IF Copies(games, s) = {s}
                \/ s = FirstListed(report'.listing, Copies(games, s))
            THEN Untouched(s)
            ELSE s \notin DOMAIN games' /\ s \notin DOMAIN zipped'
      ]_vars

\* C21 witness: an accepted prune left one game of a set of duplicates, with
\* its backup, and a game outside every set.
C21_Witness ==
    /\ last.op = "dedupe" /\ last.outcome = "pruned"
    /\ \E G \in report.groups :
        /\ Cardinality(G \cap DOMAIN games) = 1
        /\ G \cap DOMAIN games \subseteq DOMAIN zipped
        /\ (G \ DOMAIN games) \cap DOMAIN zipped = {}
    /\ DOMAIN games \ UNION report.groups # {}

\* C22: the games find_duplicates removes on an accept are the same for every
\* list _get_all_games can return over the installed games, so the copy that
\* is kept does not depend on the order the file system lists them in.
C22_SurvivorIndependentOfListing ==
    \A o1, o2 \in GameOrders(games) :
        FindDuplicatesResult(games, zipped, o1, <<"y">>).games
            = FindDuplicatesResult(games, zipped, o2, <<"y">>).games

\* C23: a declined prune leaves both roots as they were, and a find_duplicates
\* run that directly follows it lists the same sets of duplicates.
C23_DeclinedPruneChangesNothing ==
    [][/\ (last'.op = "dedupe" /\ last'.asked /\ ~last'.accepted) =>
            games' = games /\ zipped' = zipped
       /\ (last.op = "dedupe" /\ last.asked /\ ~last.accepted /\ last'.op = "dedupe") =>
            report'.groups = report.groups /\ report'.groups # {}
      ]_vars

\* C23 witness: a find_duplicates run that directly followed a declined one
\* listed duplicates again.
C23_Witness ==
    /\ last.op = "dedupe" /\ report.again
    /\ report.groups # {}
    /\ \A G \in report.groups : G \subseteq DOMAIN games /\ G \subseteq DOMAIN zipped

----------------------------------------------------------------------------
(* Claims checked under SpecArchive *)

\* The ways a URL install ends before it installs anything
FetchFailures == {"http_error", "url_error", "cut_short", "not_zip"}

\* C24: however a URL install ends, the downloaded file is not there
\* afterwards; when the download fails or the file is not a zip archive,
\* both roots are as they were.
C24_DownloadIsCleanedUp ==
    [][last'.op = "install_url" =>
        /\ ~temp'.download.there
        /\ last'.outcome \in FetchFailures => (games' = games /\ zipped' = zipped)
      ]_vars

\* C24 witness: a URL install whose transfer broke off left no file behind
\* and left the installed games and their backups alone.
C24_Witness ==
    /\ last.op = "install_url" /\ last.outcome = "cut_short"
    /\ ~temp.download.there
    /\ DOMAIN games # {} /\ DOMAIN zipped # {}

\* C25: after an install from an archive, single or collection, given as a
\* file or fetched from a URL, neither staging directory is there, however
\* the install ended.
C25_StagingIsRemoved ==
    [][(last'.op \in {"install_game", "install_url"}
            /\ report'.given.kind \in {"zip", "url"}) =>
        /\ ~temp'.extract.there
        /\ ~temp'.collection.there
      ]_vars

\* C25 witness: an install from an archive whose manifest does not parse
\* raised and left no staging directory.
C25_Witness ==
    /\ last.op = "install_game" /\ report.given.kind = "zip"
    /\ last.outcome = "raised"
    /\ ~temp.extract.there /\ ~temp.collection.there

\* C28: after a single install from an archive has put a game in place, the
\* backup of its slug is an archive of the installed tree, paths from the
\* directory of the manifest, which is the backup an install of the same
\* source as a directory writes.
C28_BackupIsSnapshotOfInstalledTree ==
    [][(/\ last'.op \in {"install_game", "install_url"}
        /\ report'.given.kind \in {"zip", "url"}
        /\ report'.mode = "single"
        /\ last'.outcome \in {"installed", "updated"}) =>
        /\ zipped'[last'.slug] = games'[last'.slug]
        /\ zipped'[last'.slug] =
              InstallGameResult(games, zipped, report'.given.src, "dir", FALSE,
                                [all |-> <<"y">>, each |-> <<"y">>]).done.zipped[last'.slug]
      ]_vars

----------------------------------------------------------------------------
(* Claims checked under SpecVersions *)

\* The digits of a string, in order
DigitsOnly(v) == SelectSeq(v, LAMBDA c : \E i \in DOMAIN Digits : Digits[i] = c)

\* <base>-by-<author-slug>-v<digits of the version>
ExpectedSlugWithVersion(base, author, version) ==
    ExpectedSlugWithAuthor(base, author) \o <<"-","v">> \o DigitsOnly(version)

\* C27: when an install finds the base slug taken by a game of another
\* author or version and the slug with the author suffix taken too, and the
\* slug with the version tag made of the digits of the version is free, the
\* game is installed under that slug.
C27_VersionTagIsDigitsOnly ==
    [][(last'.op = "install_dir" /\ last'.outcome = "installed") =>
        LET f == last'.file
            base == BaseSlug(f.name.s)
            tagged == ExpectedSlugWithVersion(base, f.author.s, f.version.s)
        IN  (/\ base \in DOMAIN games
             /\ <<games[base].file.author, games[base].file.version>>
                    # <<f.author, f.version>>
             /\ ExpectedSlugWithAuthor(base, f.author.s) \in DOMAIN games
             /\ tagged \notin DOMAIN games)
            => last'.slug = tagged
      ]_vars

\* C30: after a batch export into an empty directory, zipped or not, the
\* directory holds as many artifacts as there are installed games, and the
\* export of each game is among them.
C30_ExportHasOneArtifactPerGame ==
    last.op = "batch_export" =>
        /\ Cardinality(DOMAIN report.exported) = Cardinality(DOMAIN games)
        /\ \A s \in DOMAIN games :
              \E a \in DOMAIN report.exported : report.exported[a] = games[s]

----------------------------------------------------------------------------
(* Claims checked under SpecOwnership *)

\* The author and the version of manifest f are those of manifest m
SameAuthorAndVersion(f, m) ==
    /\ Get(f.author) = Get(m.author)
    /\ Get(f.version) = Get(m.version)

\* Slug s holds after the step what it held before it, game and backup
Kept(s) ==
    /\ s \in DOMAIN games' /\ games'[s] = games[s]
    /\ s \in DOMAIN zipped => (s \in DOMAIN zipped' /\ zipped'[s] = zipped[s])

----------------------------------------------------------------------------
(* Claims checked under SpecNames *)

\* s is one path segment that names a directory entry: not empty, not '.'
\* or '..', without a path separator
OneSegment(s) ==
    /\ s \notin {<<>>, <<".">>, <<".", ".">>}
    /\ \A i \in DOMAIN s : s[i] # "/"

\* C32 (as claimed): for every manifest name and author, the slug the
\* resolver returns against the installed games is one safe path segment;
\* so every game directory an install has made lies right below the games
\* root, where the enumeration finds it, and has its backup in the backups
\* root.
C32_SlugIsOneSafeSegment ==
    /\ \A f \in NamesFiles :
        LET r == GetUniqueSlug(games, BaseSlug(f.name.s), f)
        IN  ~r.raised => OneSegment(r.slug)
    /\ \A s \in DOMAIN games :
        /\ OneSegment(s)
        /\ s \in GetAllGames(games)
        /\ s \in DOMAIN zipped

----------------------------------------------------------------------------
(* Claims checked under SpecSync *)

\* C33: a sync pass, whatever the answer to its prompt, leaves the games
\* root as it was, and leaves the backup of every installed game that had
\* one as it was.
C33_SyncLeavesGamesAlone ==
    [][last'.op = "sync" =>
        /\ games' = games
        /\ \A s \in GetAllGames(games) \cap DOMAIN zipped :
                s \in DOMAIN zipped' /\ zipped'[s] = zipped[s]
      ]_vars

\* C33 witness: a sync pass whose prompt was accepted has removed an
\* orphaned backup next to an installed game whose backup is not an archive
\* of its tree, and that backup is still the one it was.
C33_Witness ==
    /\ last.op = "sync" /\ last.asked /\ last.accepted
    /\ report.orphaned # {}
    /\ \E s \in GetAllGames(games) \cap DOMAIN zipped : zipped[s] # games[s]

----------------------------------------------------------------------------
(* Claims checked under SpecStaging *)

\* C34 (as claimed): an install of one archive that puts a game on disk
\* puts there the manifest and the files of the archive it was given,
\* whatever an earlier install that was killed has left in temp_extract.
C34_InstallsWhatItWasGiven ==
    [][(last'.op = "install_zip" /\ last'.outcome \in {"installed", "updated"}) =>
            /\ last'.file = FirstGame(report'.given.src).file
            /\ games'[last'.slug] = FirstGame(report'.given.src)
      ]_vars

====
